---------------------------- MODULE Spec2Model ----------------------------
(***************************************************************************)
(* A model of uzbektourist.ai: the TF-IDF retrieval module (lib/rag: the   *)
(* tokenizer, the chunker, the index builder, the process-wide cached      *)
(* index, retrieve and refreshIndex), the part of the chat route that      *)
(* calls it, and the itinerary normalizer of the chat route.               *)
(*                                                                         *)
(* Text is a sequence of one-character strings, so that lowercasing,       *)
(* character replacement, splitting and trimming are computed as the code  *)
(* computes them.  The floating point numbers of the code are fixed-point  *)
(* integers: weights, idf values and norms in units of 1/WeightScale,      *)
(* scores in units of 1/ScoreScale.                                        *)
(***************************************************************************)
EXTENDS Integers, Sequences, FiniteSets, TLC

\* null: no Index, no value
NULL == [null |-> TRUE]

(***************************************************************************)
(* Bounds of the model.                                                    *)
(***************************************************************************)
MaxSources == 2
MaxLimit == 2
NumRequests == 2

(***************************************************************************)
(* Characters and strings.                                                 *)
(***************************************************************************)
UpperCase == <<"A", "B", "C", "D", "E", "F", "G", "H", "I", "J", "K", "L", "M",
               "N", "O", "P", "Q", "R", "S", "T", "U", "V", "W", "X", "Y", "Z">>

LowerCase == <<"a", "b", "c", "d", "e", "f", "g", "h", "i", "j", "k", "l", "m",
               "n", "o", "p", "q", "r", "s", "t", "u", "v", "w", "x", "y", "z">>

Digits == <<"0", "1", "2", "3", "4", "5", "6", "7", "8", "9">>

Range(s) == {s[i] : i \in DOMAIN s}

\* String.prototype.toLowerCase on one character
ToLowerChar(c) ==
  IF \E i \in DOMAIN UpperCase : UpperCase[i] = c
    THEN LowerCase[CHOOSE i \in DOMAIN UpperCase : UpperCase[i] = c]
    ELSE c

ToLowerCase(text) == [i \in DOMAIN text |-> ToLowerChar(text[i])]

\* the regular expression class \s, on the characters of the model
IsSpace(c) == c \in {" ", "\n", "\t"}

\* the regular expression class [a-z0-9]
IsLowerAlnum(c) == c \in Range(LowerCase) \cup Range(Digits)

\* text.replace(/[^a-z0-9\s]/g, " ")
ReplaceNonAlnum(text) ==
  [i \in DOMAIN text |->
     IF IsLowerAlnum(text[i]) \/ IsSpace(text[i]) THEN text[i] ELSE " "]

\* the k-th smallest element of a set of integers
Nth(S, k) == CHOOSE i \in S : Cardinality({j \in S : j < i}) = k - 1

\* String.prototype.split, given the set of the positions of text that the
\* separator pattern matches: the pieces between the maximal runs of such
\* positions; a separator at either end of the text leaves an empty piece
Split(text, sep) ==
  LET n == Len(text)
      starts == {i \in sep : i - 1 \notin sep}
      ends == {i \in sep : i + 1 \notin sep}
      count == Cardinality(starts) + 1
  IN  [k \in 1..count |->
         SubSeq(text,
                IF k = 1 THEN 1 ELSE Nth(ends, k - 1) + 1,
                IF k = count THEN n ELSE Nth(starts, k) - 1)]

\* text.split(/\s+/)
SplitWhitespace(text) == Split(text, {i \in DOMAIN text : IsSpace(text[i])})

\* String.prototype.trim
RECURSIVE TrimStart(_)
TrimStart(text) ==
  IF text # <<>> /\ IsSpace(Head(text)) THEN TrimStart(Tail(text)) ELSE text

RECURSIVE TrimEnd(_)
TrimEnd(text) ==
  IF text # <<>> /\ IsSpace(text[Len(text)])
    THEN TrimEnd(SubSeq(text, 1, Len(text) - 1))
    ELSE text

Trim(text) == TrimEnd(TrimStart(text))

\* text.split(/\n{2,}/): a separator is a run of two or more "\n"
IsNewline(text, i) == i \in DOMAIN text /\ text[i] = "\n"

SplitParagraphs(text) ==
  Split(text, {i \in DOMAIN text :
                 IsNewline(text, i) /\ (IsNewline(text, i - 1) \/ IsNewline(text, i + 1))})

\* the decimal digits of a natural number, as `${n}` writes them
RECURSIVE ToDecimal(_)
ToDecimal(n) ==
  IF n < 10 THEN <<Digits[n + 1]>>
  ELSE ToDecimal(n \div 10) \o <<Digits[(n % 10) + 1]>>

(***************************************************************************)
(* lib/rag: tokenizer and chunker.                                         *)
(***************************************************************************)
STOPWORDS ==
  { <<"a">>, <<"a", "n">>, <<"a", "n", "d">>, <<"a", "r", "e">>, <<"a", "s">>,
    <<"a", "t">>, <<"b", "e">>, <<"b", "u", "t">>, <<"b", "y">>,
    <<"f", "o", "r">>, <<"f", "r", "o", "m">>, <<"h", "a", "s">>, <<"h", "e">>,
    <<"i", "n">>, <<"i", "s">>, <<"i", "t">>, <<"i", "t", "s">>, <<"o", "f">>,
    <<"o", "n">>, <<"o", "r">>, <<"t", "h", "a", "t">>, <<"t", "h", "e">>,
    <<"t", "o">>, <<"w", "a", "s">>, <<"w", "e", "r", "e">>,
    <<"w", "i", "l", "l">>, <<"w", "i", "t", "h">>, <<"y", "o", "u">>,
    <<"y", "o", "u", "r">> }

\* a tokenizer that drops only the tokens of one character
TokenKept_OffByOne(token) == Len(token) > 1 /\ token \notin STOPWORDS

TokenKept(token) == Len(token) > 2 /\ token \notin STOPWORDS

tokenize(text) ==
  SelectSeq(SplitWhitespace(ReplaceNonAlnum(ToLowerCase(text))), TokenKept)

IsNonEmpty(text) == text # <<>>

\* a chunker that yields nothing for a document without a blank line
chunkContent_NeedsSeparator(source) ==
  LET pieces == SplitParagraphs(source.content)
      paragraphs == SelectSeq([i \in DOMAIN pieces |-> Trim(pieces[i])], IsNonEmpty)
  IN  IF Len(pieces) < 2 THEN <<>> ELSE paragraphs

chunkContent(source) ==
  LET pieces == SplitParagraphs(source.content)
      paragraphs == SelectSeq([i \in DOMAIN pieces |-> Trim(pieces[i])], IsNonEmpty)
  IN  IF paragraphs = <<>> /\ Trim(source.content) # <<>>
        THEN <<Trim(source.content)>>
        ELSE paragraphs

(***************************************************************************)
(* Numbers.  A weight, an idf value or a norm x of the code is the integer *)
(* x * WeightScale, a score s is the integer s * ScoreScale; divisions and *)
(* square roots round down.                                                *)
(***************************************************************************)
WeightScale == 100
ScoreScale == 10000

\* Math.log(n) * WeightScale, rounded, for the arguments the model reaches
LnTable == <<0, 69, 110, 139, 161, 179, 195, 208, 220, 230, 240, 248, 256,
             264, 271, 277>>

\* Math.log(num / den) for natural numbers num >= den >= 1
LogRatio(num, den) == LnTable[num] - LnTable[den]

\* Math.sqrt, rounded down
RECURSIVE Sqrt(_)
Sqrt(n) ==
  IF n < 2 THEN n
  ELSE LET small == 2 * Sqrt(n \div 4)
           large == small + 1
       IN  IF large * large > n THEN small ELSE large

RECURSIVE SumOver(_, _)
SumOver(f, keys) ==
  IF keys = {} THEN 0
  ELSE LET k == CHOOSE x \in keys : TRUE
       IN  f[k] + SumOver(f, keys \ {k})

\* the number of occurrences of token in tokens
Count(tokens, token) == Cardinality({i \in DOMAIN tokens : tokens[i] = token})

(***************************************************************************)
(* lib/rag: index builder.  A Map of the code is a function whose domain   *)
(* is the set of its keys.                                                 *)
(***************************************************************************)
\* the step of the loop over the chunks, when every occurrence of a token
\* in the chunk is counted
countChunk_EveryOccurrence(df, tokens) ==
  [token \in DOMAIN df \cup Range(tokens) |->
     (IF token \in DOMAIN df THEN df[token] ELSE 0) + Count(tokens, token)]

\* for (const token of new Set(chunk.tokens)) df.set(token, (df.get(token) ?? 0) + 1)
countChunk(df, tokens) ==
  [token \in DOMAIN df \cup Range(tokens) |->
     (IF token \in DOMAIN df THEN df[token] ELSE 0)
       + (IF token \in Range(tokens) THEN 1 ELSE 0)]

\* the Map df after the loop over the chunks
RECURSIVE documentFrequency(_)
documentFrequency(chunks) ==
  IF chunks = <<>> THEN <<>>
  ELSE countChunk(documentFrequency(SubSeq(chunks, 1, Len(chunks) - 1)),
                  chunks[Len(chunks)].tokens)

computeIdf(chunks) ==
  LET docCount == IF Len(chunks) = 0 THEN 1 ELSE Len(chunks)
      df == documentFrequency(chunks)
  IN  [token \in DOMAIN df |-> LogRatio(docCount + 1, df[token] + 1) + WeightScale]

computeTfidf(tokens, idf) ==
  LET tf == [token \in Range(tokens) |-> Count(tokens, token)]
      total == IF Len(tokens) = 0 THEN 1 ELSE Len(tokens)
      vector == [token \in DOMAIN tf |->
                   (tf[token] * (IF token \in DOMAIN idf THEN idf[token] ELSE WeightScale))
                     \div total]
      squares == [token \in DOMAIN vector |-> vector[token] * vector[token]]
  IN  [vector |-> vector, norm |-> Sqrt(SumOver(squares, DOMAIN vector))]

\* a loader without the Array.isArray check
loadSources_NoArrayCheck(file) ==
  IF file.state = "missing" THEN <<>>
  ELSE IF file.state = "invalid" THEN <<>>
  ELSE file.records

\* data/sources.json is missing, is not JSON ("invalid"), holds a JSON value
\* that is not an array ("object": an object that wraps the records), or
\* holds an array of records ("array")
loadSources(file) ==
  IF file.state = "missing" THEN <<>>
  ELSE IF file.state = "invalid" THEN <<>>
  ELSE IF file.state = "array" THEN file.records
  ELSE <<>>

\* the chunks of one source, in paragraph order
rawChunksOf(source) ==
  LET parts == chunkContent(source)
  IN  [index \in DOMAIN parts |->
         [id |-> source.id \o <<"-">> \o ToDecimal(index),
          sourceId |-> source.id,
          title |-> source.title,
          url |-> source.url,
          content |-> parts[index],
          tokens |-> tokenize(parts[index])]]

RECURSIVE rawChunksFrom(_)
rawChunksFrom(sources) ==
  IF sources = <<>> THEN <<>>
  ELSE rawChunksOf(Head(sources)) \o rawChunksFrom(Tail(sources))

\* chunk vectors built without the IDF table
vectorizeChunk_NoIdf(chunk, idf) ==
  LET tfidf == computeTfidf(chunk.tokens, <<>>)
  IN  [id |-> chunk.id,
       sourceId |-> chunk.sourceId,
       title |-> chunk.title,
       url |-> chunk.url,
       content |-> chunk.content,
       tfidf |-> tfidf.vector,
       norm |-> tfidf.norm]

vectorizeChunk(chunk, idf) ==
  LET tfidf == computeTfidf(chunk.tokens, idf)
  IN  [id |-> chunk.id,
       sourceId |-> chunk.sourceId,
       title |-> chunk.title,
       url |-> chunk.url,
       content |-> chunk.content,
       tfidf |-> tfidf.vector,
       norm |-> tfidf.norm]

\* an Index handed out before its IDF table is filled
buildIndex_HalfBuilt(file) ==
  LET sources == loadSources(file)
      rawChunks == rawChunksFrom(sources)
      idf == computeIdf(rawChunks)
  IN  [chunks |-> [i \in DOMAIN rawChunks |-> vectorizeChunk(rawChunks[i], idf)],
       idf |-> <<>>]

buildIndex(file) ==
  LET sources == loadSources(file)
      rawChunks == rawChunksFrom(sources)
      idf == computeIdf(rawChunks)
  IN  [chunks |-> [i \in DOMAIN rawChunks |-> vectorizeChunk(rawChunks[i], idf)],
       idf |-> idf]

(***************************************************************************)
(* lib/rag: retriever.                                                     *)
(***************************************************************************)
cosineSimilarity(queryVector, queryNorm, chunk) ==
  IF queryNorm = 0 \/ chunk.norm = 0 THEN 0
  ELSE LET shared == {token \in DOMAIN queryVector :
                        token \in DOMAIN chunk.tfidf /\ chunk.tfidf[token] # 0}
           products == [token \in shared |-> queryVector[token] * chunk.tfidf[token]]
           dot == SumOver(products, shared)
       IN  (dot * ScoreScale) \div (queryNorm * chunk.norm)

\* the relevance threshold 0.05
Threshold == ScoreScale \div 20

\* a threshold of 0.5
AboveThreshold_Half(item) == item.score > ScoreScale \div 2

\* a threshold of 0
AboveThreshold_Zero(item) == item.score > 0

AboveThreshold(item) == item.score > Threshold

\* an unstable sort: an item goes before the items of equal score
RECURSIVE InsertByScore_Unstable(_, _)
InsertByScore_Unstable(sorted, item) ==
  IF sorted = <<>> THEN <<item>>
  ELSE IF Head(sorted).score > item.score
    THEN <<Head(sorted)>> \o InsertByScore_Unstable(Tail(sorted), item)
    ELSE <<item>> \o sorted

\* Array.prototype.sort with the comparator (a, b) => b.score - a.score:
\* a stable sort, so an item goes behind the items that do not score less
RECURSIVE InsertByScore(_, _)
InsertByScore(sorted, item) ==
  IF sorted = <<>> THEN <<item>>
  ELSE IF Head(sorted).score >= item.score
    THEN <<Head(sorted)>> \o InsertByScore(Tail(sorted), item)
    ELSE <<item>> \o sorted

RECURSIVE SortByScore(_)
SortByScore(items) ==
  IF items = <<>> THEN <<>>
  ELSE InsertByScore(SortByScore(SubSeq(items, 1, Len(items) - 1)), items[Len(items)])

\* slice(0, end + 1)
SliceTo_OneMore(items, end) ==
  IF end + 1 > Len(items) THEN items ELSE SubSeq(items, 1, end + 1)

\* Array.prototype.slice(0, end)
SliceTo(items, end) ==
  LET last == IF end < 0 THEN Len(items) + end
              ELSE IF end > Len(items) THEN Len(items) ELSE end
  IN  IF last <= 0 THEN <<>> ELSE SubSeq(items, 1, last)

\* retrieve after getIndex(): the ranking of the chunks of index
retrieveFrom(index, query, limit) ==
  IF Len(index.chunks) = 0 THEN <<>>
  ELSE LET tokens == tokenize(query)
       IN  IF Len(tokens) = 0 THEN <<>>
           ELSE LET q == computeTfidf(tokens, index.idf)
                    all == [i \in DOMAIN index.chunks |->
                              [chunk |-> index.chunks[i],
                               score |-> cosineSimilarity(q.vector, q.norm, index.chunks[i])]]
                    scored == SliceTo(SortByScore(SelectSeq(all, AboveThreshold)), limit)
                IN  [i \in DOMAIN scored |->
                       [id |-> scored[i].chunk.id,
                        sourceId |-> scored[i].chunk.sourceId,
                        title |-> scored[i].chunk.title,
                        url |-> scored[i].chunk.url,
                        content |-> scored[i].chunk.content,
                        score |-> scored[i].score]]

(***************************************************************************)
(* JavaScript values, as JSON.parse produces them.  A number of the model  *)
(* is an integer or NaN; a string is a text of the characters above.       *)
(***************************************************************************)
Undefined == [type |-> "undefined"]
JNull == [type |-> "null"]
JBool(b) == [type |-> "boolean", value |-> b]
JNum(n) == [type |-> "number", value |-> n, nan |-> FALSE]
NaN == [type |-> "number", value |-> 0, nan |-> TRUE]
JStr(text) == [type |-> "string", value |-> text]
JArr(items) == [type |-> "array", value |-> items]
JObj(fields) == [type |-> "object", value |-> fields]

\* the typeof operator
TypeOf(v) == IF v.type \in {"null", "array"} THEN "object" ELSE v.type

\* Array.isArray
IsArray(v) == v.type = "array"

\* ToBoolean: the values that pass `if (value)`
Truthy(v) ==
  IF v.type \in {"undefined", "null"} THEN FALSE
  ELSE IF v.type = "boolean" THEN v.value
  ELSE IF v.type = "number" THEN ~v.nan /\ v.value # 0
  ELSE IF v.type = "string" THEN v.value # <<>>
  ELSE TRUE

\* the property v[name] of a value that is neither null nor undefined
Get(v, name) ==
  IF v.type = "object" /\ name \in DOMAIN v.value THEN v.value[name] ELSE Undefined

\* a ?? b
Coalesce(a, b) == IF a.type \in {"undefined", "null"} THEN b ELSE a

\* the decimal notation of an integer
IntToText(n) == IF n < 0 THEN <<"-">> \o ToDecimal(0 - n) ELSE ToDecimal(n)

RECURSIVE JoinWithComma(_)
JoinWithComma(texts) ==
  IF texts = <<>> THEN <<>>
  ELSE IF Len(texts) = 1 THEN texts[1]
  ELSE texts[1] \o <<",">> \o JoinWithComma(Tail(texts))

\* String(v)
RECURSIVE ToStr(_)
ToStr(v) ==
  IF v.type = "undefined" THEN <<"u", "n", "d", "e", "f", "i", "n", "e", "d">>
  ELSE IF v.type = "null" THEN <<"n", "u", "l", "l">>
  ELSE IF v.type = "boolean"
    THEN IF v.value THEN <<"t", "r", "u", "e">> ELSE <<"f", "a", "l", "s", "e">>
  ELSE IF v.type = "number"
    THEN IF v.nan THEN <<"N", "a", "N">> ELSE IntToText(v.value)
  ELSE IF v.type = "string" THEN v.value
  ELSE IF v.type = "array"
    THEN JoinWithComma([i \in DOMAIN v.value |->
                          IF v.value[i].type \in {"undefined", "null"} THEN <<>>
                          ELSE ToStr(v.value[i])])
  ELSE <<"[", "o", "b", "j", "e", "c", "t", " ", "O", "b", "j", "e", "c", "t", "]">>

\* the value of a text of decimal digits
RECURSIVE DigitsValue(_)
DigitsValue(text) ==
  IF text = <<>> THEN 0
  ELSE 10 * DigitsValue(SubSeq(text, 1, Len(text) - 1))
         + (CHOOSE d \in 0..9 : Digits[d + 1] = text[Len(text)])

IsDigits(text) == text # <<>> /\ \A i \in DOMAIN text : text[i] \in Range(Digits)

\* Number(text): white space is trimmed, the empty text is 0, an optionally
\* signed text of digits is its value, any other text of the model is NaN
TextToNumber(text) ==
  LET t == Trim(text)
  IN  IF t = <<>> THEN JNum(0)
      ELSE IF IsDigits(t) THEN JNum(DigitsValue(t))
      ELSE IF t[1] = "-" /\ IsDigits(Tail(t)) THEN JNum(0 - DigitsValue(Tail(t)))
      ELSE IF t[1] = "+" /\ IsDigits(Tail(t)) THEN JNum(DigitsValue(Tail(t)))
      ELSE NaN

\* Number(v)
ToNumber(v) ==
  IF v.type = "undefined" THEN NaN
  ELSE IF v.type = "null" THEN JNum(0)
  ELSE IF v.type = "boolean" THEN JNum(IF v.value THEN 1 ELSE 0)
  ELSE IF v.type = "number" THEN v
  ELSE TextToNumber(ToStr(v))

\* Number.isFinite
IsFinite(v) == v.type = "number" /\ ~v.nan

\* String(v) and Number(v) throw a TypeError: an object parsed from JSON with
\* a property toString has no callable toString, and the valueOf it inherits
\* returns the object; an array converts its elements, null excepted
RECURSIVE ToPrimitiveThrows(_)
ToPrimitiveThrows(v) ==
  IF v.type = "object" THEN "toString" \in DOMAIN v.value
  ELSE IF v.type = "array"
    THEN \E i \in DOMAIN v.value :
           /\ v.value[i].type \notin {"undefined", "null"}
           /\ ToPrimitiveThrows(v.value[i])
  ELSE FALSE

\* what a call that throws a TypeError yields
TypeError == [threw |-> "TypeError"]

(***************************************************************************)
(* The chat route: the itinerary normalizer.                               *)
(***************************************************************************)
HasText(text) == Len(Trim(text)) > 0

\* a coercion that wraps an array as it wraps a scalar
coerceStringArray_WrapArray(value) ==
  IF ~Truthy(value) THEN <<>>
  ELSE SelectSeq(<<ToStr(value)>>, HasText)

coerceStringArray(value) ==
  IF ~Truthy(value) THEN <<>>
  ELSE IF IsArray(value)
    THEN SelectSeq([i \in DOMAIN value.value |-> ToStr(value.value[i])], HasText)
  ELSE SelectSeq(<<ToStr(value)>>, HasText)

\* coerceStringArray(value) throws
coerceStringArrayThrows(value) ==
  /\ Truthy(value)
  /\ IF IsArray(value)
       THEN \E i \in DOMAIN value.value : ToPrimitiveThrows(value.value[i])
       ELSE ToPrimitiveThrows(value)

\* the sources, when the fallback tokens are added to those of the reply
normalizedSources_Both(sources, fallbackSources) == sources \o fallbackSources

\* sources.length > 0 ? sources : fallbackSources
normalizedSources(sources, fallbackSources) ==
  IF Len(sources) > 0 THEN sources ELSE fallbackSources

\* a days or tips list that wraps a value that is not an array
arrayOrEmpty_Wrap(value) ==
  IF IsArray(value) THEN value.value
  ELSE IF Truthy(value) THEN <<value>> ELSE <<>>

\* Array.isArray(value) ? value : []
arrayOrEmpty(value) == IF IsArray(value) THEN value.value ELSE <<>>

\* the entry of the element dayItem at the 0-based position index of days
dayEntry(dayItem, index) ==
  LET dayObj == Coalesce(dayItem, JObj(<<>>))
      dayNumber == ToNumber(Coalesce(Get(dayObj, "day"), JNum(index + 1)))
  IN  [day |-> IF IsFinite(dayNumber) THEN dayNumber.value ELSE index + 1,
       theme |-> IF Truthy(Get(dayObj, "theme"))
                   THEN JStr(ToStr(Get(dayObj, "theme")))
                   ELSE Undefined,
       morning |-> coerceStringArray(Get(dayObj, "morning")),
       afternoon |-> coerceStringArray(Get(dayObj, "afternoon")),
       evening |-> coerceStringArray(Get(dayObj, "evening"))]

\* the callback of daysRaw.map throws
dayEntryThrows(dayItem, index) ==
  LET dayObj == Coalesce(dayItem, JObj(<<>>))
  IN  \/ ToPrimitiveThrows(Coalesce(Get(dayObj, "day"), JNum(index + 1)))
      \/ Truthy(Get(dayObj, "theme")) /\ ToPrimitiveThrows(Get(dayObj, "theme"))
      \/ coerceStringArrayThrows(Get(dayObj, "morning"))
      \/ coerceStringArrayThrows(Get(dayObj, "afternoon"))
      \/ coerceStringArrayThrows(Get(dayObj, "evening"))

\* the callback of tipsRaw.map throws
tipEntryThrows(tip) ==
  LET tipObj == Coalesce(tip, JObj(<<>>))
  IN  \/ Truthy(Get(tipObj, "label")) /\ ToPrimitiveThrows(Get(tipObj, "label"))
      \/ coerceStringArrayThrows(Get(tipObj, "details"))

tipEntry(tip) ==
  LET tipObj == Coalesce(tip, JObj(<<>>))
  IN  [label |-> IF Truthy(Get(tipObj, "label"))
                   THEN ToStr(Get(tipObj, "label"))
                   ELSE <<"T", "i", "p">>,
       details |-> coerceStringArray(Get(tipObj, "details"))]

normalizeItinerary(raw, fallbackSources) ==
  IF ~Truthy(raw) \/ TypeOf(raw) # "object" THEN NULL
  ELSE LET daysRaw == arrayOrEmpty(Get(raw, "days"))
           days == [i \in DOMAIN daysRaw |-> dayEntry(daysRaw[i], i - 1)]
           tipsRaw == arrayOrEmpty(Get(raw, "tips"))
           sources == coerceStringArray(Get(raw, "sources"))
       IN  IF \E i \in DOMAIN daysRaw : dayEntryThrows(daysRaw[i], i - 1) THEN TypeError
           ELSE IF Len(days) = 0 THEN NULL
           ELSE IF \/ Truthy(Get(raw, "title")) /\ ToPrimitiveThrows(Get(raw, "title"))
                   \/ coerceStringArrayThrows(Get(raw, "transportNotes"))
                   \/ \E i \in DOMAIN tipsRaw : tipEntryThrows(tipsRaw[i])
                   \/ coerceStringArrayThrows(Get(raw, "sources"))
             THEN TypeError
           ELSE [title |-> IF Truthy(Get(raw, "title"))
                             THEN ToStr(Get(raw, "title"))
                             ELSE <<"I", "t", "i", "n", "e", "r", "a", "r", "y">>,
                 days |-> days,
                 transportNotes |-> coerceStringArray(Get(raw, "transportNotes")),
                 tips |-> [i \in DOMAIN tipsRaw |-> tipEntry(tipsRaw[i])],
                 sources |-> normalizedSources(sources, fallbackSources)]

(***************************************************************************)
(* The chat route: extractJson.  The characters outside ASCII that the     *)
(* route names are characters of the model under these names.             *)
(***************************************************************************)
LeftQuote == "ldquo"
RightQuote == "rdquo"
RightSingleQuote == "rsquo"
EmDash == "mdash"
Bullet == "bull"

\* the grave accent, which a string of the model cannot hold as itself
Backtick == "grave"

\* text has word at position i
\* the element of a set of one element: Only({e(x) : x \in {v}}) is e(v),
\* with v computed once
Only(set) == CHOOSE element \in set : TRUE

StartsWith(text, i, word) ==
  /\ i >= 1
  /\ i + Len(word) - 1 <= Len(text)
  /\ SubSeq(text, i, i + Len(word) - 1) = word

\* the first position from position from at which text has word, or 0
IndexOf(text, word, from) ==
  LET found == {i \in from..Len(text) : StartsWith(text, i, word)}
  IN  IF found = {} THEN 0 ELSE Nth(found, 1)

\* the position that \s* reaches from position i
RECURSIVE SkipSpace(_, _)
SkipSpace(text, i) ==
  IF i <= Len(text) /\ IsSpace(text[i]) THEN SkipSpace(text, i + 1) ELSE i

\* the failure of a step of JSON.parse
SyntaxError == [ok |-> FALSE]

\* the characters that the escapes \" \\ \/ \n \t of a JSON string stand for
\* (the replies of the model carry no \b, \f, \r and \u escape)
Escapes ==
  ("\"" :> "\"") @@ ("\\" :> "\\") @@ ("/" :> "/") @@ ("n" :> "\n") @@ ("t" :> "\t")

\* JSON.parse, the characters of a string from position i, after its opening
\* quote: the string and the position after its closing quote
RECURSIVE ParseChars(_, _, _)
ParseChars(text, i, chars) ==
  IF i > Len(text) THEN SyntaxError
  ELSE IF text[i] = "\"" THEN [ok |-> TRUE, value |-> chars, pos |-> i + 1]
  ELSE IF text[i] = "\\"
    THEN IF i + 1 <= Len(text) /\ text[i + 1] \in DOMAIN Escapes
           THEN ParseChars(text, i + 2, Append(chars, Escapes[text[i + 1]]))
           ELSE SyntaxError
  ELSE IF text[i] \in {"\n", "\t"} THEN SyntaxError
  ELSE ParseChars(text, i + 1, Append(chars, text[i]))

\* the position after the run of digits from position i
RECURSIVE SkipDigits(_, _)
SkipDigits(text, i) ==
  IF i <= Len(text) /\ text[i] \in Range(Digits) THEN SkipDigits(text, i + 1) ELSE i

\* JSON.parse, a number at position i: an integer without a leading zero
\* (the replies of the model carry no fraction and no exponent)
ParseNumber(text, i) ==
  LET negative == text[i] = "-"
      first == IF negative THEN i + 1 ELSE i
      last == IF first <= Len(text) /\ text[first] = "0"
                THEN first + 1
                ELSE SkipDigits(text, first)
      value == DigitsValue(SubSeq(text, first, last - 1))
  IN  IF last = first THEN SyntaxError
      ELSE IF last <= Len(text) /\ text[last] \in {".", "e", "E"} THEN SyntaxError
      ELSE [ok |-> TRUE, value |-> JNum(IF negative THEN 0 - value ELSE value),
            pos |-> last]

\* the name of a property, from its characters
RECURSIVE KeyOf(_)
KeyOf(chars) == IF chars = <<>> THEN "" ELSE chars[1] \o KeyOf(Tail(chars))

JsonLiterals ==
  << [word |-> <<"t", "r", "u", "e">>, value |-> JBool(TRUE)],
     [word |-> <<"f", "a", "l", "s", "e">>, value |-> JBool(FALSE)],
     [word |-> <<"n", "u", "l", "l">>, value |-> JNull] >>

\* JSON.parse, a value from position i: the value and the position after it.
\* ParseMembers reads the members of an object from the first one and
\* ParseElements the elements of an array; a later member of the same name
\* replaces the earlier one
RECURSIVE ParseValue(_, _)
RECURSIVE ParseMembers(_, _, _)
RECURSIVE ParseElements(_, _, _)
ParseValue(text, from) ==
  LET i == SkipSpace(text, from)
      next == SkipSpace(text, i + 1)
  IN  IF i > Len(text) THEN SyntaxError
      ELSE IF text[i] = "{"
        THEN IF next <= Len(text) /\ text[next] = "}"
               THEN [ok |-> TRUE, value |-> JObj(<<>>), pos |-> next + 1]
               ELSE ParseMembers(text, next, <<>>)
      ELSE IF text[i] = "["
        THEN IF next <= Len(text) /\ text[next] = "]"
               THEN [ok |-> TRUE, value |-> JArr(<<>>), pos |-> next + 1]
               ELSE ParseElements(text, next, <<>>)
      ELSE IF text[i] = "\""
        THEN LET string == ParseChars(text, i + 1, <<>>)
             IN  IF string.ok
                   THEN [ok |-> TRUE, value |-> JStr(string.value), pos |-> string.pos]
                   ELSE SyntaxError
      ELSE IF \E k \in DOMAIN JsonLiterals : StartsWith(text, i, JsonLiterals[k].word)
        THEN LET literal == JsonLiterals[CHOOSE k \in DOMAIN JsonLiterals :
                                           StartsWith(text, i, JsonLiterals[k].word)]
             IN  [ok |-> TRUE, value |-> literal.value, pos |-> i + Len(literal.word)]
      ELSE IF text[i] = "-" \/ text[i] \in Range(Digits) THEN ParseNumber(text, i)
      ELSE SyntaxError

ParseMembers(text, i, fields) ==
  IF i > Len(text) \/ text[i] # "\"" THEN SyntaxError
  ELSE LET name == ParseChars(text, i + 1, <<>>)
           colon == IF name.ok THEN SkipSpace(text, name.pos) ELSE 0
           member == IF name.ok /\ colon <= Len(text) /\ text[colon] = ":"
                       THEN ParseValue(text, colon + 1)
                       ELSE SyntaxError
           end == IF member.ok THEN SkipSpace(text, member.pos) ELSE 0
           merged == IF member.ok
                       THEN (KeyOf(name.value) :> member.value) @@ fields
                       ELSE fields
       IN  IF ~member.ok \/ end > Len(text) THEN SyntaxError
           ELSE IF text[end] = "}"
             THEN [ok |-> TRUE, value |-> JObj(merged), pos |-> end + 1]
           ELSE IF text[end] = ","
             THEN ParseMembers(text, SkipSpace(text, end + 1), merged)
           ELSE SyntaxError

ParseElements(text, i, items) ==
  LET element == ParseValue(text, i)
      end == IF element.ok THEN SkipSpace(text, element.pos) ELSE 0
  IN  IF ~element.ok \/ end > Len(text) THEN SyntaxError
      ELSE IF text[end] = "]"
        THEN [ok |-> TRUE, value |-> JArr(Append(items, element.value)), pos |-> end + 1]
      ELSE IF text[end] = ","
        THEN ParseElements(text, end + 1, Append(items, element.value))
      ELSE SyntaxError

\* JSON.parse(text): one value between white space, or a SyntaxError
JsonParse(text) ==
  LET parsed == ParseValue(text, 1)
  IN  IF parsed.ok /\ SkipSpace(text, parsed.pos) = Len(text) + 1
        THEN [ok |-> TRUE, value |-> parsed.value]
        ELSE SyntaxError

Fence == <<Backtick, Backtick, Backtick>>

\* trimmed.match(/```(?:json)?\s*([\s\S]*?)```/i): the group, or NULL
fencedGroup(trimmed) ==
  LET open == IndexOf(trimmed, Fence, 1)
      word == IF StartsWith(ToLowerCase(trimmed), open + 3, <<"j", "s", "o", "n">>)
                THEN open + 7
                ELSE open + 3
      start == SkipSpace(trimmed, word)
      close == IndexOf(trimmed, Fence, start)
  IN  IF open = 0 \/ close = 0 THEN NULL ELSE [group |-> SubSeq(trimmed, start, close - 1)]

\* candidate.match(/\{[\s\S]*\}/): from the first "{" to the last "}", or NULL
braceMatch(candidate) ==
  LET open == IndexOf(candidate, <<"{">>, 1)
      closes == {i \in DOMAIN candidate : i > open /\ candidate[i] = "}"}
  IN  IF open = 0 \/ closes = {} THEN NULL
      ELSE [match |-> SubSeq(candidate, open, Nth(closes, Cardinality(closes)))]

\* .replace(/[<ldquo><rdquo>]/g, "\"").replace(/[<rsquo>]/g, "'")
replaceQuotes(raw) ==
  [i \in DOMAIN raw |->
     IF raw[i] \in {LeftQuote, RightQuote} THEN "\""
     ELSE IF raw[i] = RightSingleQuote THEN "'"
     ELSE raw[i]]

\* .replace(/,\s*([}\]])/g, "$1"): a comma and the white space after it go
\* when "}" or "]" follows
dropTrailingCommas(raw) ==
  LET closesAfter(i) ==
        LET j == SkipSpace(raw, i + 1)
        IN  j <= Len(raw) /\ raw[j] \in {"}", "]"}
      commas == {i \in DOMAIN raw : raw[i] = "," /\ closesAfter(i)}
      dropped == {i \in DOMAIN raw :
                    \E c \in commas : c <= i /\ i < SkipSpace(raw, c + 1)}
      kept == DOMAIN raw \ dropped
  IN  [k \in 1..Cardinality(kept) |-> raw[Nth(kept, k)]]

\* the text that extractJson looks for an object in: the group of the
\* fence if there is one, the trimmed text if not
candidateOf(trimmed) ==
  Only({ IF fenced # NULL THEN fenced.group ELSE trimmed
         : fenced \in {fencedGroup(trimmed)} })

\* extractJson(text): the parsed value, or JNull
extractJson(text) ==
  Only({ IF braces = NULL THEN JNull
         ELSE Only({ IF first.ok THEN first.value
                     ELSE Only({ IF repaired.ok THEN repaired.value ELSE JNull
                                 : repaired \in
                                     {JsonParse(dropTrailingCommas(replaceQuotes(braces.match)))} })
                     : first \in {JsonParse(braces.match)} })
         : braces \in {braceMatch(candidateOf(Trim(text)))} })

(***************************************************************************)
(* The chat route: jsonToMarkdown.                                         *)
(***************************************************************************)
TextS1 == <<"S", "1">>
TextS2 == <<"S", "2">>
TextNone == <<"n", "o", "n", "e">>

ChatMode ==
  <<"c", "h", "a", "t">>

ItineraryMode ==
  <<"i", "t", "i", "n", "e", "r", "a", "r", "y">>

ItinerarySuffix ==
  <<" ", "i", "t", "i", "n", "e", "r", "a", "r", "y">>

HeaderPrefix ==
  <<"#", "#", "#", " ">>

TableHeader ==
  <<"|", " ", "D", "a", "y", " ", "|", " ", "M", "o", "r", "n", "i", "n",
    "g", " ", "|", " ", "A", "f", "t", "e", "r", "n", "o", "o", "n", " ",
    "|", " ", "E", "v", "e", "n", "i", "n", "g", " ", "|", "\n", "|", " ",
    "-", "-", "-", " ", "|", " ", "-", "-", "-", " ", "|", " ", "-", "-",
    "-", " ", "|", " ", "-", "-", "-", " ", "|">>

DayPrefix ==
  <<"D", "a", "y", " ">>

ThemeSeparator ==
  <<" ", EmDash, " ">>

CellStart ==
  <<"|", " ">>

CellSeparator ==
  <<" ", "|", " ">>

CellEnd ==
  <<" ", "|">>

LineBreak ==
  <<"<", "b", "r", ">">>

BulletPrefix ==
  <<Bullet, " ">>

TransportTitle ==
  <<"*", "*", "T", "r", "a", "n", "s", "p", "o", "r", "t", " ", "n", "o",
    "t", "e", "s", "*", "*">>

NotePrefix ==
  <<"-", " ">>

TipHeader ==
  <<"|", " ", "T", "i", "p", " ", "|", " ", "D", "e", "t", "a", "i", "l",
    "s", " ", "|", "\n", "|", " ", "-", "-", "-", " ", "|", " ", "-", "-",
    "-", " ", "|">>

TipsTitle ==
  <<"*", "*", "P", "r", "a", "c", "t", "i", "c", "a", "l", " ", "t", "i",
    "p", "s", "*", "*">>

SourcesNone ==
  <<"S", "o", "u", "r", "c", "e", "s", ":", " ", "n", "o", "n", "e">>

SourcesPrefix ==
  <<"S", "o", "u", "r", "c", "e", "s", ":", " ">>

SourcesWord ==
  <<"s", "o", "u", "r", "c", "e", "s", ":">>

SourcesAppended ==
  <<"\n", "\n", "S", "o", "u", "r", "c", "e", "s", ":", " ">>

\* Array.prototype.join
RECURSIVE Join(_, _)
Join(texts, separator) ==
  IF texts = <<>> THEN <<>>
  ELSE IF Len(texts) = 1 THEN texts[1]
  ELSE texts[1] \o separator \o Join(Tail(texts), separator)

\* formatCell, and the cell of the details of a tip
formatCell(items) ==
  IF Len(items) = 0 THEN <<EmDash>>
  ELSE Join([i \in DOMAIN items |-> BulletPrefix \o items[i]], LineBreak)

\* the row of the table for the entry day
dayRow(day) ==
  LET dayLabel == DayPrefix \o IntToText(day.day)
                    \o (IF Truthy(day.theme) THEN ThemeSeparator \o day.theme.value ELSE <<>>)
  IN  CellStart \o dayLabel \o CellSeparator \o formatCell(day.morning)
        \o CellSeparator \o formatCell(day.afternoon)
        \o CellSeparator \o formatCell(day.evening) \o CellEnd

tipRow(tip) == CellStart \o tip.label \o CellSeparator \o formatCell(tip.details) \o CellEnd

\* the sections after the table: the transport notes and the tips, if any
sectionsOf(itinerary) ==
  (IF Len(itinerary.transportNotes) > 0
     THEN << Join(<<TransportTitle>>
                    \o [i \in DOMAIN itinerary.transportNotes |->
                          NotePrefix \o itinerary.transportNotes[i]],
                  <<"\n">>) >>
     ELSE <<>>)
  \o
  (IF Len(itinerary.tips) > 0
     THEN << Join(<<TipsTitle, TipHeader>>
                    \o [i \in DOMAIN itinerary.tips |-> tipRow(itinerary.tips[i])],
                  <<"\n">>) >>
     ELSE <<>>)

\* sources.includes("none") ? "Sources: none" : `Sources: ${...}`
sourcesLine(sources) ==
  IF \E i \in DOMAIN sources : sources[i] = TextNone THEN SourcesNone
  ELSE SourcesPrefix \o Join([i \in DOMAIN sources |-> <<"[">> \o sources[i] \o <<"]">>], <<" ">>)

NotEmptyPart(part) == part # <<>>

\* the markdown of an itinerary that normalizeItinerary returned
markdownOf(itinerary, fallbackSources) ==
  LET rows == [i \in DOMAIN itinerary.days |-> dayRow(itinerary.days[i])]
      sources == IF Len(itinerary.sources) > 0 THEN itinerary.sources ELSE fallbackSources
      parts == <<HeaderPrefix \o itinerary.title, <<>>, TableHeader>> \o rows \o << <<>> >>
                 \o sectionsOf(itinerary) \o << <<>>, sourcesLine(sources) >>
  IN  [text |-> Join(SelectSeq(parts, NotEmptyPart), <<"\n">>)]

\* jsonToMarkdown, when it renders the head of the table for a value that
\* normalizeItinerary rejected
jsonToMarkdown_NoGuard(raw, fallbackSources) ==
  Only({ IF itinerary = TypeError THEN TypeError
         ELSE IF itinerary = NULL THEN [text |-> TableHeader]
         ELSE markdownOf(itinerary, fallbackSources)
         : itinerary \in {normalizeItinerary(raw, fallbackSources)} })

\* jsonToMarkdown(raw, fallbackSources): NULL, the markdown text, or the
\* TypeError that normalizeItinerary throws
jsonToMarkdown(raw, fallbackSources) ==
  Only({ IF itinerary = TypeError THEN TypeError
         ELSE IF itinerary = NULL THEN NULL
         ELSE markdownOf(itinerary, fallbackSources)
         : itinerary \in {normalizeItinerary(raw, fallbackSources)} })

(***************************************************************************)
(* The chat route: POST.                                                   *)
(***************************************************************************)
CACHE_TTL_MS == 1000 * 60 * 10
CACHE_VERSION == 2

\* the query that POST retrieves with; the content of a message of the
\* model is a string
queryOf(body) ==
  IF Get(body, "mode") = JStr(ChatMode)
    THEN LET messages == Get(body, "messages").value
         IN  Coalesce(Get(messages[Len(messages)], "content"), JStr(<<>>)).value
    ELSE ToStr(Coalesce(Get(body, "city"), JStr(<<>>))) \o <<" ">>
           \o ToStr(Coalesce(Get(body, "interests"), JStr(<<>>))) \o ItinerarySuffix

\* webSources.length > 0 ? webSources.map((_, index) => `S${index + 1}`) : ["none"]
sourceTokens(webSources) ==
  IF Len(webSources) > 0
    THEN [i \in DOMAIN webSources |-> <<"S">> \o ToDecimal(i)]
    ELSE <<TextNone>>

\* buildCacheKey: the payload that is hashed, a property that is undefined
\* left out as JSON.stringify leaves it out
buildCacheKey(body, sourceIds) ==
  [mode |-> Get(body, "mode"), messages |-> Get(body, "messages"),
   city |-> Get(body, "city"), days |-> Get(body, "days"),
   style |-> Get(body, "style"), budget |-> Get(body, "budget"),
   interests |-> Get(body, "interests"), sources |-> sourceIds,
   cacheVersion |-> CACHE_VERSION]

\* the regular expression class \w
IsWordChar(c) == c \in Range(LowerCase) \cup Range(UpperCase) \cup Range(Digits) \cup {"_"}

\* /\bSources:\s*/i.test(text)
hasSourcesLine(text) ==
  \E lower \in {ToLowerCase(text)} :
    \E i \in DOMAIN text :
      /\ StartsWith(lower, i, SourcesWord)
      /\ i = 1 \/ ~IsWordChar(text[i - 1])

\* the sources that POST appends: "[S1] [S2]", or "none"
fallbackSources(webSources) ==
  IF Len(webSources) > 0
    THEN Join([i \in DOMAIN webSources |-> <<"[", "S">> \o ToDecimal(i) \o <<"]">>], <<" ">>)
    ELSE TextNone

\* the text, when POST appends the Sources line to a rendered Itinerary only
appendSources_OnlyConverted(text, converted, webSources) ==
  IF converted /\ ~hasSourcesLine(text)
    THEN text \o SourcesAppended \o fallbackSources(webSources)
    ELSE text

\* if (!/\bSources:\s*/i.test(finalText)) finalText = `${finalText}\n\nSources: ${fallbackSources}`
appendSources(text, converted, webSources) ==
  IF ~hasSourcesLine(text)
    THEN text \o SourcesAppended \o fallbackSources(webSources)
    ELSE text

\* the sources of the response
responseSources(webSources) ==
  [i \in DOMAIN webSources |->
     [id |-> <<"S">> \o ToDecimal(i), title |-> webSources[i].title, url |-> webSources[i].url]]

(***************************************************************************)
(* The source documents and the queries of the model.                      *)
(***************************************************************************)
RECURSIVE Repeat(_, _)
Repeat(text, n) == IF n = 0 THEN <<>> ELSE text \o Repeat(text, n - 1)

\* "Bus map.\n\nThe bus": two paragraphs
SourceA ==
  [id |-> <<"a">>, title |-> "A", url |-> "https://a",
   content |-> <<"B", "u", "s", " ", "m", "a", "p", ".", "\n", "\n",
                 "T", "h", "e", " ", "b", "u", "s">>]

\* the number of times "tea" follows "bus" in SourceB
TeaCount == 13

\* "bus tea tea ... tea": one long paragraph in which "bus" is rare
SourceB ==
  [id |-> <<"b">>, title |-> "B", url |-> "https://b",
   content |-> <<"b", "u", "s">> \o Repeat(<<" ", "t", "e", "a">>, TeaCount)]

\* " map bus\n\n\ngo it \n": a paragraph with the tokens of the first
\* paragraph of SourceA, and a paragraph of a short word and a stopword
SourceC ==
  [id |-> <<"k", "b", "-", "c">>, title |-> "C", url |-> "https://c",
   content |-> <<" ", "m", "a", "p", " ", "b", "u", "s", "\n", "\n", "\n",
                 "g", "o", " ", "i", "t", " ", "\n">>]

SourcePool == {SourceA, SourceB, SourceC}

\* the sequences of distinct records of SourcePool of length n
RECURSIVE RecordSeqs(_)
RecordSeqs(n) ==
  IF n = 0 THEN {<<>>}
  ELSE {Append(s, r) : s \in RecordSeqs(n - 1), r \in SourcePool} 

DistinctRecordSeqs ==
  {s \in UNION {RecordSeqs(n) : n \in 0..MaxSources} :
     \A i, j \in DOMAIN s : i # j => s[i] # s[j]}

FileStates ==
  {[state |-> st, records |-> <<>>] : st \in {"missing", "invalid"}}
    \cup {[state |-> "object", records |-> <<SourceA>>]}
    \cup {[state |-> "array", records |-> s] : s \in DistinctRecordSeqs}

QueryPool ==
  { <<>>,
    <<"b", "u", "s">>,
    <<"T", "h", "e", " ", "T", "E", "A", "!">>,
    <<"G", "o", " ", "t", "h", "e", " ", "A", "-", "b">>,
    <<"m", "a", "p", ",", " ", "b", "u", "s">>,
    <<"t", "a", "x", "i", " ", "t", "e", "a">> }

\* the default value of the parameter limit of retrieve
DefaultLimit == 4

Limits == (0..MaxLimit) \cup {DefaultLimit}

(***************************************************************************)
(* The parsed model replies and the fallback citation tokens of the model. *)
(***************************************************************************)

\* { "day": 2, "theme": "T", "morning": ["a", " ", 4], "afternoon": "b", "evening": [] }
DayFull ==
  JObj([day |-> JNum(2), theme |-> JStr(<<"T">>),
        morning |-> JArr(<<JStr(<<"a">>), JStr(<<" ">>), JNum(4)>>),
        afternoon |-> JStr(<<"b">>),
        evening |-> JArr(<<>>)])

\* { "day": " 7 ", "theme": 0, "morning": null, "evening": [null, {}, ["x", "y"]] }
DayText ==
  JObj([day |-> JStr(<<" ", "7", " ">>), theme |-> JNum(0), morning |-> JNull,
        evening |-> JArr(<<JNull, JObj(<<>>), JArr(<<JStr(<<"x">>), JStr(<<"y">>)>>)>>)])

\* { "day": "x", "afternoon": true }
DayBad == JObj([day |-> JStr(<<"x">>), afternoon |-> JBool(TRUE)])

\* { "day": 0 }
DayZero == JObj([day |-> JNum(0)])

\* { "day": -1, "theme": ["T"] }
DayNegative == JObj([day |-> JNum(0 - 1), theme |-> JArr(<<JStr(<<"T">>)>>)])

\* the values of the field days; Undefined: the field is absent
DaysPool ==
  { Undefined, JNull, JStr(<<"2">>), JObj([length |-> JNum(1)]), JArr(<<>>),
    JArr(<<DayFull>>), JArr(<<JNull, DayText>>), JArr(<<DayBad, JNum(5), DayZero>>),
    JArr(<<JStr(<<"d">>), DayNegative>>) }

TitlePool ==
  {Undefined, JStr(<<"X">>), JStr(<<>>), JNum(5), JArr(<<>>), JObj([toString |-> JNum(1)])}

SourcesPool ==
  { Undefined, JArr(<<>>), JArr(<<JStr(TextS1), JStr(TextS2)>>), JStr(<<"S", "9">>),
    JArr(<<JStr(<<" ">>)>>), JArr(<<JStr(TextNone)>>) }

TipsPool ==
  { Undefined, JStr(<<"t">>),
    JArr(<<JObj([label |-> JStr(<<"P", "a", "y">>),
                 details |-> JArr(<<JStr(<<"c", "a", "s", "h">>), JStr(<<>>)>>)])>>),
    JArr(<<JNull, JObj([label |-> JNum(0), details |-> JStr(<<"d">>)])>>) }

TransportPool == {Undefined, JStr(<<"t">>), JArr(<<JStr(<<"a">>), JStr(<<>>)>>)}

FieldNames == {"title", "days", "transportNotes", "tips", "sources"}

\* the object with the given fields, without those that are Undefined
ObjectOf(fields) ==
  JObj([name \in {n \in FieldNames : fields[n] # Undefined} |-> fields[name]])

\* the values handed to normalizeItinerary: objects, and values of other types
RawPool ==
  { ObjectOf([title |-> t, days |-> d, transportNotes |-> tr, tips |-> tp, sources |-> so]) :
      t \in TitlePool, d \in DaysPool, tr \in TransportPool, tp \in TipsPool,
      so \in SourcesPool }
    \cup { JNull, JNum(3), JBool(TRUE), JStr(<<"d", "a", "y", "s">>), JArr(<<DayFull>>) }

\* the citation tokens of the retrieved chunks: ["none"], or ["S1", "S2"]
FallbackPool == {<<TextNone>>, <<TextS1, TextS2>>}

(***************************************************************************)
(* The replies of the upstream model.                                      *)
(***************************************************************************)
\* a reply without a Sources line: Go by bus.
ReplyPlain ==
  <<"G", "o", " ", "b", "y", " ", "b", "u", "s", ".">>

\* a reply that cites and ends with a Sources line: Bus [S1].\nsources:[S1]
ReplyCited ==
  <<"B", "u", "s", " ", "[", "S", "1", "]", ".", "\n", "s", "o", "u", "r",
    "c", "e", "s", ":", "[", "S", "1", "]">>

\* a fenced object without days: <grave><grave><grave>json\n{"days":[]}\n<grave><grave><grave>
ReplyFencedEmptyDays ==
  <<Backtick, Backtick, Backtick, "j", "s", "o", "n", "\n", "{", "\"", "d",
    "a", "y", "s", "\"", ":", "[", "]", "}", "\n", Backtick, Backtick,
    Backtick>>

\* days numbered 0 and "": {"days":[{"day":0},{"day":""}]}
ReplyDayZero ==
  <<"{", "\"", "d", "a", "y", "s", "\"", ":", "[", "{", "\"", "d", "a", "y",
    "\"", ":", "0", "}", ",", "{", "\"", "d", "a", "y", "\"", ":", "\"",
    "\"", "}", "]", "}">>

\* a theme with a property toString: {"days":[{"theme":{"toString":1}}]}
ReplyToStringKey ==
  <<"{", "\"", "d", "a", "y", "s", "\"", ":", "[", "{", "\"", "t", "h", "e",
    "m", "e", "\"", ":", "{", "\"", "t", "o", "S", "t", "r", "i", "n", "g",
    "\"", ":", "1", "}", "}", "]", "}">>

\* prose around an object with trailing commas: Plan: {"days":[{"day":" 2 "},],"sources":["S9"], } ok
ReplyTrailingCommas ==
  <<"P", "l", "a", "n", ":", " ", "{", "\"", "d", "a", "y", "s", "\"", ":",
    "[", "{", "\"", "d", "a", "y", "\"", ":", "\"", " ", "2", " ", "\"", "}",
    ",", "]", ",", "\"", "s", "o", "u", "r", "c", "e", "s", "\"", ":", "[",
    "\"", "S", "9", "\"", "]", ",", " ", "}", " ", "o", "k">>

\* typographic quotes, and a title that is an empty array: <grave><grave><grave>JSON {<ldquo>title<rdquo>:[],<ldquo>days<rdquo>:[null]}<grave><grave><grave>
ReplyCurlyQuotes ==
  <<Backtick, Backtick, Backtick, "J", "S", "O", "N", " ", "{", LeftQuote,
    "t", "i", "t", "l", "e", RightQuote, ":", "[", "]", ",", LeftQuote, "d",
    "a", "y", "s", RightQuote, ":", "[", "n", "u", "l", "l", "]", "}",
    Backtick, Backtick, Backtick>>

\* an object that does not parse: {"days":[1}
ReplyBroken ==
  <<"{", "\"", "d", "a", "y", "s", "\"", ":", "[", "1", "}">>

\* a day with a theme, and the source none: {"days":[{"morning":["a","b"],"theme":"T"}],"sources":"none"}
ReplyMorning ==
  <<"{", "\"", "d", "a", "y", "s", "\"", ":", "[", "{", "\"", "m", "o", "r",
    "n", "i", "n", "g", "\"", ":", "[", "\"", "a", "\"", ",", "\"", "b",
    "\"", "]", ",", "\"", "t", "h", "e", "m", "e", "\"", ":", "\"", "T",
    "\"", "}", "]", ",", "\"", "s", "o", "u", "r", "c", "e", "s", "\"", ":",
    "\"", "n", "o", "n", "e", "\"", "}">>

\* two objects in one reply: {a} Sources: {"days":[2]}
ReplyTwoObjects ==
  <<"{", "a", "}", " ", "S", "o", "u", "r", "c", "e", "s", ":", " ", "{",
    "\"", "d", "a", "y", "s", "\"", ":", "[", "2", "]", "}">>

ReplyPool ==
  { ReplyPlain, ReplyCited, ReplyFencedEmptyDays,
    ReplyDayZero, ReplyToStringKey, ReplyTrailingCommas,
    ReplyCurlyQuotes, ReplyBroken, ReplyMorning,
    ReplyTwoObjects }

\* extractJson on the replies of the upstream model, computed once for each
ExtractedReplies == [reply \in ReplyPool |-> extractJson(reply)]
extractJsonOf(text) ==
  IF text \in ReplyPool THEN ExtractedReplies[text] ELSE extractJson(text)

\* finalText, from the text of the reply: [text, normalized], where normalized
\* is what normalizeItinerary returned if it was called, or TypeError
finalTextOf(body, text, webSources) ==
  LET isItinerary == Get(body, "mode") = JStr(ItineraryMode)
  IN  Only({ Only({ IF converted = TypeError THEN TypeError
                    ELSE LET rendered == converted # NULL /\ converted.text # <<>>
                         IN  [text |-> appendSources(IF rendered THEN converted.text ELSE text,
                                                     rendered, webSources),
                              normalized |-> IF isItinerary /\ Truthy(parsed)
                                              THEN normalizeItinerary(parsed, sourceTokens(webSources))
                                              ELSE NULL]
                    : converted \in { IF isItinerary /\ Truthy(parsed)
                                        THEN jsonToMarkdown(parsed, sourceTokens(webSources))
                                        ELSE NULL } })
             : parsed \in { IF isItinerary THEN extractJsonOf(text) ELSE JNull } })

(***************************************************************************)
(* State.                                                                  *)
(***************************************************************************)
VARIABLES
  sourcesFile,   \* data/sources.json
  cachedIndex,   \* the module variable cachedIndex of lib/rag
  builtFrom,     \* history: the file that the latest buildIndex() loaded
  lastCall,      \* history: the latest call of retrieve or refreshIndex
  normText,      \* the reply that extractJson is given, NoText without one
  normRaw,       \* the argument raw of a call of normalizeItinerary
  normFallback,  \* the argument fallbackSources of that call
  normResult,    \* what the call returned, Pending before it has
  normAgain,     \* what normalizeItinerary returned for that Itinerary
  requests,      \* the calls of POST /api/chat: where each is, and its locals
  post,          \* the call of POST /api/chat that is served, and its response
  responseCache, \* the Map responseCache of the chat route
  now,           \* Date.now()
  configured,    \* AI_BASE_URL, AI_API_KEY and AI_MODEL are set
  feedbackCalls, \* the calls of POST /api/feedback: where each is, and its locals
  memoryStore,   \* the array memoryStore of the feedback route
  feedbackTable, \* the table feedback of the database: whether it exists, its rows
  postgresUrl,   \* POSTGRES_URL is set
  arrived,       \* the number of calls of POST /api/feedback so far
  home           \* the component Home of the chat page: its feedback state and requests

ragVars == <<sourcesFile, cachedIndex, builtFrom, lastCall>>
normVars == <<normText, normRaw, normFallback, normResult, normAgain>>
vars == <<sourcesFile, cachedIndex, builtFrom, lastCall, normText, normRaw,
          normFallback, normResult, normAgain, requests, post, responseCache,
          now, configured, feedbackCalls, memoryStore, feedbackTable, postgresUrl,
          arrived, home>>
chatVars == <<post, responseCache, now, configured>>
feedbackVars == <<feedbackCalls, memoryStore, feedbackTable, postgresUrl, arrived>>

\* the number of messages of the page that take feedback
NumMessages == 2

MessageIds == 1..NumMessages

\* useState({}): no message has a feedback state; rendered is the state that
\* the latest render gave to the buttons and to the closure sendFeedback,
\* posts the ratings of the requests to /api/feedback that await a response,
\* and clicks, a history, the number of requests made for the message
InitialHome ==
  [feedbackState |-> [id \in MessageIds |-> "none"],
   rendered |-> [id \in MessageIds |-> "none"],
   posts |-> [id \in MessageIds |-> <<>>],
   clicks |-> [id \in MessageIds |-> 0]]

\* the number of calls of POST /api/feedback that are served at a time
NumFeedbackCalls == 2
FeedbackCalls == 1..NumFeedbackCalls

\* the number of calls of POST /api/feedback in a behaviour
MaxFeedback == 3

\* no call of POST /api/feedback has arrived
NoFeedback ==
  /\ feedbackCalls = [r \in FeedbackCalls |-> [pc |-> "idle"]]
  /\ memoryStore = <<>>
  /\ feedbackTable = [exists |-> FALSE, rows |-> <<>>]
  /\ arrived = 0

Requests == 1..NumRequests

\* a call of POST that has not arrived
IdleRequest == [pc |-> "idle"]

Pending == [pending |-> TRUE]
NoText == [text |-> FALSE]

\* a getIndex() that also rebuilds an Index without chunks
getIndex_RebuildEmpty(cache, file) ==
  IF cache = NULL \/ cache.chunks = <<>>
    THEN [index |-> buildIndex(file), built |-> TRUE]
    ELSE [index |-> cache, built |-> FALSE]

\* getIndex(): the Index it returns, which is the cache afterwards, and
\* whether it called buildIndex()
getIndex(cache, file) ==
  IF cache = NULL
    THEN [index |-> buildIndex(file), built |-> TRUE]
    ELSE [index |-> cache, built |-> FALSE]

\* one call retrieve(query, limit) when the cache holds cache, built from the
\* file from, and data/sources.json is file: the cache afterwards, the file it
\* was built from, and the record of the call
retrieveCall(cache, from, file, query, limit) ==
  LET got == getIndex(cache, file)
  IN  [cache |-> got.index,
       from |-> IF got.built THEN file ELSE from,
       call |-> [op |-> "retrieve", query |-> query, limit |-> limit,
                 index |-> got.index, built |-> got.built,
                 result |-> retrieveFrom(got.index, query, limit)]]

Init ==
  /\ sourcesFile \in FileStates
  /\ cachedIndex = NULL
  /\ builtFrom = NULL
  /\ lastCall = [op |-> "none"]
  /\ normText = NoText
  /\ normRaw = JNull
  /\ normFallback = <<>>
  /\ normResult = Pending
  /\ normAgain = Pending
  /\ requests = [r \in Requests |-> IdleRequest]
  /\ post = [pc |-> "idle"]
  /\ responseCache = <<>>
  /\ now = 0
  /\ configured = TRUE
  /\ NoFeedback
  /\ postgresUrl = FALSE
  /\ home = InitialHome

\* retrieve(query, limit)
Retrieve(query, limit) ==
  LET done == retrieveCall(cachedIndex, builtFrom, sourcesFile, query, limit)
  IN  /\ cachedIndex' = done.cache
      /\ builtFrom' = done.from
      /\ lastCall' = done.call
      /\ UNCHANGED <<sourcesFile, normVars, requests, chatVars, feedbackVars, home>>

\* refreshIndex()
RefreshIndex ==
  /\ cachedIndex' = buildIndex(sourcesFile)
  /\ builtFrom' = sourcesFile
  /\ lastCall' = [op |-> "refreshIndex"]
  /\ UNCHANGED <<sourcesFile, normVars, requests, chatVars, feedbackVars, home>>

\* data/sources.json is edited, replaced by the ingestion script, or removed
WriteSources(file) ==
  /\ file # sourcesFile
  /\ sourcesFile' = file
  /\ UNCHANGED <<cachedIndex, builtFrom, lastCall, normVars, requests, chatVars, feedbackVars, home>>

Next ==
  \/ \E query \in QueryPool, limit \in Limits : Retrieve(query, limit)
  \/ RefreshIndex
  \/ \E file \in FileStates : WriteSources(file)

Spec == Init /\ [][Next]_vars

(***************************************************************************)
(* The itinerary normalizer, applied to one parsed reply.                  *)
(***************************************************************************)
InitNorm ==
  /\ sourcesFile = [state |-> "missing", records |-> <<>>]
  /\ cachedIndex = NULL
  /\ builtFrom = NULL
  /\ lastCall = [op |-> "none"]
  /\ \/ normText = NoText /\ normRaw \in RawPool
     \/ normText \in ReplyPool /\ normRaw = Pending
  /\ normFallback \in FallbackPool
  /\ normResult = Pending
  /\ normAgain = Pending
  /\ requests = [r \in Requests |-> IdleRequest]
  /\ post = [pc |-> "idle"]
  /\ responseCache = <<>>
  /\ now = 0
  /\ configured = TRUE
  /\ NoFeedback
  /\ postgresUrl = FALSE
  /\ home = InitialHome

\* extractJson(text)
ExtractReply ==
  /\ normText # NoText
  /\ normRaw = Pending
  /\ normRaw' = extractJson(normText)
  /\ UNCHANGED <<ragVars, normText, normFallback, normResult, normAgain, requests, chatVars, feedbackVars, home>>

\* normalizeItinerary(raw, fallbackSources)
Normalize ==
  /\ normRaw # Pending
  /\ normResult = Pending
  /\ normResult' = normalizeItinerary(normRaw, normFallback)
  /\ UNCHANGED <<ragVars, normText, normRaw, normFallback, normAgain, requests, chatVars, feedbackVars, home>>

\* an Itinerary as the parsed value of its own JSON text
asParsed(itinerary) ==
  LET texts(list) == JArr([i \in DOMAIN list |-> JStr(list[i])])
      day(d) == JObj([day |-> JNum(d.day), theme |-> d.theme,
                      morning |-> texts(d.morning), afternoon |-> texts(d.afternoon),
                      evening |-> texts(d.evening)])
      tip(t) == JObj([label |-> JStr(t.label), details |-> texts(t.details)])
  IN  JObj([title |-> JStr(itinerary.title),
            days |-> JArr([i \in DOMAIN itinerary.days |-> day(itinerary.days[i])]),
            transportNotes |-> texts(itinerary.transportNotes),
            tips |-> JArr([i \in DOMAIN itinerary.tips |-> tip(itinerary.tips[i])]),
            sources |-> texts(itinerary.sources)])

\* normalizeItinerary(itinerary, fallbackSources), for the Itinerary that the
\* first call returned
NormalizeAgain ==
  /\ normResult \notin {Pending, NULL, TypeError}
  /\ normAgain = Pending
  /\ normAgain' = normalizeItinerary(asParsed(normResult), normFallback)
  /\ UNCHANGED <<ragVars, normText, normRaw, normFallback, normResult, requests, chatVars, feedbackVars, home>>

NextNorm == ExtractReply \/ Normalize \/ NormalizeAgain

SpecNorm == InitNorm /\ [][NextNorm]_vars

(***************************************************************************)
(* Concurrent calls of POST /api/chat.  A call runs without interruption   *)
(* from one await to the next: retrieve and buildIndex do not await.       *)
(***************************************************************************)
\* the files that data/sources.json goes through while requests are served
RequestFiles ==
  { [state |-> "missing", records |-> <<>>],
    [state |-> "array", records |-> <<SourceA>>],
    [state |-> "array", records |-> <<SourceC, SourceB>>] }

\* the last chat messages of the requests
RequestQueries == {<<"b", "u", "s">>, <<"G", "o", " ", "t", "h", "e", " ", "A", "-", "b">>}

\* the limits of the two retrieve calls of POST
WebLimit == 4
KbLimit == 3

InitReq ==
  /\ sourcesFile \in RequestFiles
  /\ cachedIndex = NULL
  /\ builtFrom = NULL
  /\ lastCall = [op |-> "none"]
  /\ normText = NoText
  /\ normRaw = JNull
  /\ normFallback = <<>>
  /\ normResult = Pending
  /\ normAgain = Pending
  /\ requests = [r \in Requests |-> IdleRequest]
  /\ post = [pc |-> "idle"]
  /\ responseCache = <<>>
  /\ now = 0
  /\ configured = TRUE
  /\ NoFeedback
  /\ postgresUrl = FALSE
  /\ home = InitialHome

\* a request arrives; POST awaits its body
Arrive(r, query) ==
  /\ requests[r].pc = "idle"
  /\ requests' = [requests EXCEPT ![r] = [pc |-> "body", query |-> query]]
  /\ UNCHANGED <<ragVars, normVars, chatVars, feedbackVars, home>>

\* POST answers 500 or 400: the configuration or the body is not valid
PostReject(r) ==
  /\ requests[r].pc = "body"
  /\ requests' = [requests EXCEPT ![r] = IdleRequest]
  /\ UNCHANGED <<ragVars, normVars, chatVars, feedbackVars, home>>

\* POST, from the body to the call of the model: the two calls of retrieve
PostRetrieve(r) ==
  /\ requests[r].pc = "body"
  /\ \E web \in {retrieveCall(cachedIndex, builtFrom, sourcesFile, requests[r].query, WebLimit)} :
       \E kb \in {retrieveCall(web.cache, web.from, sourcesFile, requests[r].query, KbLimit)} :
         /\ cachedIndex' = kb.cache
         /\ builtFrom' = kb.from
         /\ lastCall' = kb.call
         /\ requests' = [requests EXCEPT ![r] =
                           [pc |-> "fetch", query |-> requests[r].query,
                            webSources |-> web.call.result,
                            kbSources |-> kb.call.result,
                            built |-> web.call.built \/ kb.call.built,
                            webIndex |-> web.call.index, kbIndex |-> kb.call.index,
                            from |-> kb.from]]
  /\ UNCHANGED <<sourcesFile, normVars, chatVars, feedbackVars, home>>

\* the reply of the model arrives and POST responds
PostRespond(r) ==
  /\ requests[r].pc = "fetch"
  /\ requests' = [requests EXCEPT ![r] = IdleRequest]
  /\ UNCHANGED <<ragVars, normVars, chatVars, feedbackVars, home>>

NextReq ==
  \/ \E r \in Requests, query \in RequestQueries : Arrive(r, query)
  \/ \E r \in Requests : PostReject(r)
  \/ \E r \in Requests : PostRetrieve(r)
  \/ \E r \in Requests : PostRespond(r)
  \/ RefreshIndex
  \/ \E file \in RequestFiles : WriteSources(file)

SpecReq == InitReq /\ [][NextReq]_vars

(***************************************************************************)
(* The calls of POST /api/chat, one at a time, with the response cache.    *)
(***************************************************************************)
\* the number of times the clock advances
MaxTicks == 2

\* the time by which the clock advances: half the time that an entry lives
TickMs == CACHE_TTL_MS \div 2

\* what req.json() yields for a body that is not JSON
Unparsable == [type |-> "unparsable"]

\* { mode: "chat", messages: [{ role: "user", content: "bus" }] }
BodyChat ==
  JObj([mode |-> JStr(ChatMode),
        messages |-> JArr(<<JObj([role |-> JStr(<<"u", "s", "e", "r">>),
                                  content |-> JStr(<<"b", "u", "s">>)])>>)])

\* { mode: "chat", messages: [] }
BodyNoMessages == JObj([mode |-> JStr(ChatMode), messages |-> JArr(<<>>)])

\* { mode: "itinerary", city: "Bus", days: 2 }
BodyItinerary ==
  JObj([mode |-> JStr(ItineraryMode), city |-> JStr(<<"B", "u", "s">>), days |-> JNum(2)])

\* { city: "Bus" }
BodyNoMode == JObj([city |-> JStr(<<"B", "u", "s">>)])

BodyPool == {Unparsable, JNull, BodyNoMode, BodyNoMessages, BodyChat, BodyItinerary}

\* data/sources.json, which does not change while these calls are served
ChatFiles ==
  { [state |-> "missing", records |-> <<>>],
    [state |-> "array", records |-> <<SourceA>>] }

\* the outcomes of the call of the upstream model: a response that is not
\* ok, a reply without content, a blank reply, and the replies of ReplyPool
UpstreamError == [ok |-> FALSE]
UpstreamPool ==
  {UpstreamError, [ok |-> TRUE, content |-> Undefined], [ok |-> TRUE, content |-> JStr(<<" ", "\n">>)]}
    \cup {[ok |-> TRUE, content |-> JStr(<<" ">> \o reply \o <<"\n">>)] : reply \in ReplyPool}

IdlePost == [pc |-> "idle"]

\* the response of POST that is an error: { error }, without text and sources
errorResponse(status) ==
  [pc |-> "done", status |-> status, cached |-> FALSE, response |-> [error |-> status]]

\* NextResponse.json({ text, sources })
okResponse(text, sources) == [text |-> text, sources |-> sources]

InitChat ==
  /\ sourcesFile \in ChatFiles
  /\ cachedIndex = NULL
  /\ builtFrom = NULL
  /\ lastCall = [op |-> "none"]
  /\ normText = NoText
  /\ normRaw = JNull
  /\ normFallback = <<>>
  /\ normResult = Pending
  /\ normAgain = Pending
  /\ requests = [r \in Requests |-> IdleRequest]
  /\ post = IdlePost
  /\ responseCache = <<>>
  /\ now = 0
  /\ configured \in BOOLEAN
  /\ NoFeedback
  /\ postgresUrl = FALSE
  /\ home = InitialHome

\* a request arrives; POST awaits req.json()
PostArrive(body) ==
  /\ post.pc \in {"idle", "done"}
  /\ post' = [pc |-> "body", body |-> body]
  /\ UNCHANGED <<ragVars, normVars, requests, responseCache, now, configured, feedbackVars, home>>

MAX_HISTORY == 10

RoleUser == <<"u", "s", "e", "r">>
RoleAssistant == <<"a", "s", "s", "i", "s", "t", "a", "n", "t">>
RoleSystem == <<"s", "y", "s", "t", "e", "m">>

\* { role, content }
Message(role, content) == JObj([role |-> JStr(role), content |-> JStr(content)])

\* baseSystemPrompt(): a text that does not depend on the request
baseSystemPrompt == <<"You are uzbektourist.ai, a minimal travel assistant for Uzbekistan. ...">>

\* texts.join("\n\n")
RECURSIVE JoinBlocks(_)
JoinBlocks(texts) ==
  IF texts = <<>> THEN <<>>
  ELSE IF Len(texts) = 1 THEN texts[1]
  ELSE texts[1] \o <<"\n", "\n">> \o JoinBlocks(Tail(texts))

\* formatSources: "" without chunks, else the heading, the blocks
\* `[S<i>] <title> (<url>)\n<content>` and the instruction, joined by "\n\n"
formatSources(chunks) ==
  IF Len(chunks) = 0 THEN <<>>
  ELSE JoinBlocks(<< <<"Context sources:">>,
                     JoinBlocks([i \in DOMAIN chunks |->
                                   <<"[", "S">> \o IntToText(i) \o <<"]", " ">>
                                     \o <<chunks[i].title, " ", "(", chunks[i].url, ")", "\n">>
                                     \o chunks[i].content]),
                     <<"Use [S#] citations tied to the sources above.">> >>)

\* formatInternalNotes: "" without chunks, else the heading and the blocks
\* `Note <i>:\n<content>`, joined by "\n\n"
formatInternalNotes(chunks) ==
  IF Len(chunks) = 0 THEN <<>>
  ELSE JoinBlocks(<< <<"Background notes (internal, do not cite):">>,
                     JoinBlocks([i \in DOMAIN chunks |->
                                   <<"Note ">> \o IntToText(i) \o <<":", "\n">>
                                     \o chunks[i].content]) >>)

\* itineraryPrompt: the fields of the body, with their defaults, in the
\* sentences of the prompt, followed by instructions that do not depend on
\* the request; the interests of a body are undefined or a string
itineraryPrompt(body) ==
  <<"Create a ">> \o ToStr(Coalesce(Get(body, "days"), JNum(3)))
    \o <<"-day itinerary for ">> \o ToStr(Coalesce(Get(body, "city"), JStr(<<>>)))
    \o <<". Pace: ">> \o ToStr(Coalesce(Get(body, "style"), JStr(<<"balanced">>)))
    \o <<". Budget: ">> \o ToStr(Coalesce(Get(body, "budget"), JStr(<<"standard">>)))
    \o <<". Interests/constraints: ">>
    \o (IF Get(body, "interests").type = "string" /\ Trim(Get(body, "interests").value) # <<>>
          THEN Trim(Get(body, "interests").value)
          ELSE <<"(none specified)">>)
    \o <<". Do NOT output JSON. ...">>

\* the history that keeps the oldest messages
safeHistory_Oldest(body) ==
  LET kept == SelectSeq(Coalesce(Get(body, "messages"), JArr(<<>>)).value,
                        LAMBDA message :
                          Get(message, "role") \in {JStr(RoleUser), JStr(RoleAssistant)})
  IN  SubSeq(kept, 1, IF Len(kept) > MAX_HISTORY THEN MAX_HISTORY ELSE Len(kept))

\* (body.messages ?? []).filter(role is "user" or "assistant").slice(-MAX_HISTORY)
safeHistory(body) ==
  LET kept == SelectSeq(Coalesce(Get(body, "messages"), JArr(<<>>)).value,
                        LAMBDA message :
                          Get(message, "role") \in {JStr(RoleUser), JStr(RoleAssistant)})
  IN  SubSeq(kept, IF Len(kept) > MAX_HISTORY THEN Len(kept) - MAX_HISTORY + 1 ELSE 1,
             Len(kept))

\* the messages of the request to the upstream model
messagesOf(body, webSources, kbSources) ==
  <<Message(RoleSystem, baseSystemPrompt)>>
    \o (IF formatSources(webSources) # <<>>
          THEN <<Message(RoleSystem, formatSources(webSources))>> ELSE <<>>)
    \o (IF formatInternalNotes(kbSources) # <<>>
          THEN <<Message(RoleSystem, formatInternalNotes(kbSources))>> ELSE <<>>)
    \o (IF Get(body, "mode") = JStr(ChatMode)
          THEN safeHistory(body)
          ELSE <<Message(RoleUser, itineraryPrompt(body))>>)

\* the lookup that forgets the time at which an entry expires
cacheHit_Stale(cache, key, time) == key \in DOMAIN cache

\* cached && cached.expires > Date.now()
cacheHit(cache, key, time) == key \in DOMAIN cache /\ cache[key].expires > time

\* POST, from the body to the call of the upstream model: the checks of the
\* configuration and of the body, the two calls of retrieve, and the lookup
\* in responseCache
PostLookup ==
  /\ post.pc = "body"
  /\ LET body == post.body
         rejected ==
           IF body = Unparsable \/ ~configured THEN 500
           ELSE IF ~Truthy(Get(body, "mode")) THEN 400
           ELSE IF /\ Get(body, "mode") = JStr(ChatMode)
                   /\ \/ ~Truthy(Get(body, "messages"))
                      \/ Len(Get(body, "messages").value) = 0
             THEN 400
           ELSE 0
     IN  IF rejected # 0
           THEN /\ post' = errorResponse(rejected)
                /\ UNCHANGED <<ragVars, responseCache>>
           ELSE \E web \in {retrieveCall(cachedIndex, builtFrom, sourcesFile,
                                         queryOf(body), WebLimit)} :
                \E kb \in {retrieveCall(web.cache, web.from, sourcesFile,
                                        queryOf(body), KbLimit)} :
                  LET webSources == web.call.result
                      kbSources == kb.call.result
                      all == webSources \o kbSources
                      cacheKey == buildCacheKey(body, [i \in DOMAIN all |-> all[i].id])
                      hit == cacheHit(responseCache, cacheKey, now)
                  IN  /\ cachedIndex' = kb.cache
                      /\ builtFrom' = kb.from
                      /\ lastCall' = kb.call
                      /\ post' = IF hit
                                   THEN [pc |-> "done", status |-> 200, cached |-> TRUE,
                                         body |-> body, webSources |-> webSources,
                                         cacheKey |-> cacheKey,
                                         response |->
                                           okResponse(responseCache[cacheKey].text,
                                                      responseCache[cacheKey].sources)]
                                   ELSE [pc |-> "fetch", body |-> body,
                                         webSources |-> webSources,
                                         kbSources |-> kbSources, cacheKey |-> cacheKey,
                                         messages |->
                                           messagesOf(body, webSources, kbSources)]
                      /\ UNCHANGED <<sourcesFile, responseCache>>
  /\ UNCHANGED <<normVars, requests, now, configured, feedbackVars, home>>

\* POST, from the response of the upstream model to its own response
PostReply(upstream) ==
  /\ post.pc = "fetch"
  /\ \E text \in { IF upstream.ok /\ upstream.content.type = "string"
                      THEN Trim(upstream.content.value)
                      ELSE <<>> } :
     \E final \in { IF text = <<>> THEN NULL
                     ELSE finalTextOf(post.body, text, post.webSources) } :
     \E sources \in {responseSources(post.webSources)} :
         IF ~upstream.ok \/ text = <<>>
           THEN post' = errorResponse(502) /\ UNCHANGED responseCache
           ELSE IF final = TypeError
             THEN /\ post' = errorResponse(500) @@
                                [body |-> post.body, webSources |-> post.webSources,
                                 reply |-> text]
                  /\ UNCHANGED responseCache
           ELSE /\ responseCache' =
                     (post.cacheKey :> [text |-> final.text, expires |-> now + CACHE_TTL_MS,
                                        sources |-> sources]) @@ responseCache
                /\ post' = [pc |-> "done", status |-> 200, cached |-> FALSE,
                            body |-> post.body, webSources |-> post.webSources,
                            cacheKey |-> post.cacheKey,
                            reply |-> text, normalized |-> final.normalized,
                            response |-> okResponse(final.text, sources)]
  /\ UNCHANGED <<ragVars, normVars, requests, now, configured, feedbackVars, home>>

\* time passes
Tick ==
  /\ now < MaxTicks * TickMs
  /\ now' = now + TickMs
  /\ UNCHANGED <<ragVars, normVars, requests, post, responseCache, configured, feedbackVars, home>>

NextChat ==
  \/ \E body \in BodyPool : PostArrive(body)
  \/ PostLookup
  \/ \E upstream \in UpstreamPool : PostReply(upstream)
  \/ Tick

SpecChat == InitChat /\ [][NextChat]_vars

(***************************************************************************)
(* Definitions for the properties of retrieve.                             *)
(***************************************************************************)
\* the tokens of every paragraph of the documents of the model
ParagraphTokens ==
  [text \in UNION {Range(chunkContent(source)) : source \in SourcePool} |->
     tokenize(text)]

IsRetrieve == lastCall.op = "retrieve"

\* the cosine similarity of chunk i of the Index of the latest call
ScoreOf(i) ==
  LET q == computeTfidf(tokenize(lastCall.query), lastCall.index.idf)
  IN  cosineSimilarity(q.vector, q.norm, lastCall.index.chunks[i])

\* chunk i of the Index shares a token with the query
SharesToken(i) ==
  \E token \in Range(tokenize(lastCall.query)) :
    /\ token \in DOMAIN lastCall.index.idf
    /\ token \in Range(ParagraphTokens[lastCall.index.chunks[i].content])

\* chunk i of the Index is returned
Returned(i) ==
  \E j \in DOMAIN lastCall.result : lastCall.result[j].id = lastCall.index.chunks[i].id

\* the number of chunks of the Index that score above the threshold
Relevant == {i \in DOMAIN lastCall.index.chunks : 20 * ScoreOf(i) > ScoreScale}

\* C1 (as stated): in every retrieve call, every chunk that shares with the
\* query a token of the index is returned, with a score above 0.05
C1_AsStated ==
  IsRetrieve =>
    \A i \in DOMAIN lastCall.index.chunks :
      SharesToken(i) =>
        \E j \in DOMAIN lastCall.result :
          /\ lastCall.result[j].id = lastCall.index.chunks[i].id
          /\ 20 * lastCall.result[j].score > ScoreScale

\* C1 (amended): in every retrieve call whose limit is at least the number of
\* chunks that score above 0.05, every chunk that shares with the query a
\* token of the index and scores above 0.05 is returned, with that score
C1_SharedTokenReturned ==
  (IsRetrieve /\ lastCall.limit >= Cardinality(Relevant)) =>
    \A i \in DOMAIN lastCall.index.chunks :
      (SharesToken(i) /\ i \in Relevant) =>
        \E j \in DOMAIN lastCall.result :
          /\ lastCall.result[j].id = lastCall.index.chunks[i].id
          /\ lastCall.result[j].score = ScoreOf(i)
          /\ 20 * lastCall.result[j].score > ScoreScale

\* a call in which a chunk that shares a token is returned while another chunk
\* that shares a token stays at or below the threshold
C1_Witness ==
  /\ IsRetrieve
  /\ lastCall.limit >= Cardinality(Relevant)
  /\ \E i \in Relevant : SharesToken(i) /\ Returned(i)
  /\ \E i \in DOMAIN lastCall.index.chunks :
       SharesToken(i) /\ i \notin Relevant /\ ScoreOf(i) > 0 /\ ~Returned(i)

\* C2: every returned chunk has a cosine similarity above 0.05, and a chunk
\* with a similarity above 0.05 is absent only when the result holds limit
\* chunks, none of which scores less
C2_ThresholdAndLimit ==
  IsRetrieve =>
    /\ \A j \in DOMAIN lastCall.result :
         \E i \in DOMAIN lastCall.index.chunks :
           /\ lastCall.index.chunks[i].id = lastCall.result[j].id
           /\ lastCall.result[j].score = ScoreOf(i)
           /\ 20 * ScoreOf(i) > ScoreScale
    /\ \A i \in Relevant :
         ~Returned(i) =>
           /\ Len(lastCall.result) = lastCall.limit
           /\ \A j \in DOMAIN lastCall.result : lastCall.result[j].score >= ScoreOf(i)

\* a call that drops a chunk with a positive similarity of at most 0.05 and
\* cuts a chunk above the threshold because of the limit
C2_Witness ==
  /\ IsRetrieve
  /\ lastCall.result # <<>>
  /\ \E i \in Relevant : ~Returned(i)
  /\ \E i \in DOMAIN lastCall.index.chunks : ScoreOf(i) > 0 /\ i \notin Relevant

\* the place of a returned chunk in the sources: the position of its source
\* in the loaded records and the ordinal of its paragraph
PlaceOf(id) ==
  CHOOSE place \in (DOMAIN builtFrom.records) \X (1..9) :
    id = builtFrom.records[place[1]].id \o <<"-">> \o ToDecimal(place[2])

Before(p, q) == p[1] < q[1] \/ (p[1] = q[1] /\ p[2] < q[2])

\* C3: the result is ordered by non-increasing score, and returned chunks of
\* equal score are in source order, then paragraph order
C3_Ordered ==
  IsRetrieve =>
    \A i, j \in DOMAIN lastCall.result :
      i < j =>
        /\ lastCall.result[i].score >= lastCall.result[j].score
        /\ lastCall.result[i].score = lastCall.result[j].score =>
             Before(PlaceOf(lastCall.result[i].id), PlaceOf(lastCall.result[j].id))

\* a result with two chunks of equal score from different sources
C3_Witness ==
  /\ IsRetrieve
  /\ \E i, j \in DOMAIN lastCall.result :
       /\ i < j
       /\ lastCall.result[i].score = lastCall.result[j].score
       /\ lastCall.result[i].sourceId # lastCall.result[j].sourceId
  /\ \E i, j \in DOMAIN lastCall.result :
       lastCall.result[i].score > lastCall.result[j].score

\* C4: retrieve(q, k) with k >= 0 returns at most k chunks
C4_LimitRespected ==
  (IsRetrieve /\ lastCall.limit >= 0) => Len(lastCall.result) <= lastCall.limit

\* a call with more chunks above the threshold than the limit, and a call
\* with limit 0
C4_Witness ==
  /\ IsRetrieve
  /\ lastCall.limit = 0
  /\ Cardinality(Relevant) > 0
  /\ lastCall.result = <<>>

\* every piece of the query, lowercased and with the characters outside
\* [a-z0-9] replaced by spaces, is a stopword or has at most two characters
AllDropped(query) ==
  \A piece \in Range(SplitWhitespace(ReplaceNonAlnum(ToLowerCase(query)))) :
    Len(piece) <= 2 \/ piece \in STOPWORDS

\* C5: a query whose tokens are all stopwords or of length <= 2 (the empty
\* query included) retrieves nothing, whatever the index
C5_DegenerateQuery ==
  (IsRetrieve /\ AllDropped(lastCall.query)) => lastCall.result = <<>>

\* a non-empty query of short words and stopwords against an index with
\* chunks, with a positive limit
C5_Witness ==
  /\ IsRetrieve
  /\ AllDropped(lastCall.query)
  /\ lastCall.query # <<>>
  /\ Len(lastCall.index.chunks) > 2
  /\ lastCall.limit > 0
  /\ lastCall.result = <<>>

\* the file yields no document: it is missing, unparsable, not an array, or
\* an empty array
NoDocuments(file) ==
  file.state \in {"missing", "invalid", "object"} \/ file.records = <<>>

\* C6: an Index built from no documents has no chunks and an empty IDF
\* table, and every retrieve on it returns the empty sequence
C6_EmptyIndex ==
  (builtFrom # NULL /\ NoDocuments(builtFrom)) =>
    /\ cachedIndex.chunks = <<>>
    /\ DOMAIN cachedIndex.idf = {}
    /\ IsRetrieve => lastCall.result = <<>>

\* a query with tokens, retrieved from the Index of an unparsable file
C6_Witness ==
  /\ builtFrom # NULL
  /\ builtFrom.state = "invalid"
  /\ IsRetrieve
  /\ tokenize(lastCall.query) # <<>>
  /\ lastCall.limit > 0
  /\ lastCall.result = <<>>

\* C7: retrieve builds the Index only when none is cached; otherwise it
\* leaves the cached Index, also one without chunks, as it is; the cached
\* Index is that of the documents loaded by the latest build, which only the
\* first retrieve and refreshIndex perform
C7_BuildOnlyWhenAbsent ==
  /\ [](cachedIndex # NULL => cachedIndex = buildIndex(builtFrom))
  /\ [][(lastCall' # lastCall /\ lastCall'.op = "retrieve") =>
          /\ lastCall'.built = (cachedIndex = NULL)
          /\ cachedIndex # NULL => (cachedIndex' = cachedIndex /\ builtFrom' = builtFrom)
          /\ cachedIndex = NULL => builtFrom' = sourcesFile
          /\ lastCall'.index = cachedIndex']_vars

\* a retrieve that reused a cached Index without chunks although the file
\* has documents by now
C7_Witness ==
  /\ IsRetrieve
  /\ ~lastCall.built
  /\ cachedIndex.chunks = <<>>
  /\ sourcesFile # builtFrom
  /\ loadSources(sourcesFile) # <<>>
  /\ tokenize(lastCall.query) # <<>>

\* C8: in every retrieve call the Index scored is the cached one, its IDF
\* table is the one its chunk vectors were built with, and the scores are
\* those of the query vector weighted with that table
C8_SameIdfTable ==
  IsRetrieve =>
    LET chunks == lastCall.index.chunks
        idf == lastCall.index.idf
        tokens == [i \in DOMAIN chunks |-> ParagraphTokens[chunks[i].content]]
        df == [token \in UNION {Range(tokens[i]) : i \in DOMAIN chunks} |->
                 Cardinality({i \in DOMAIN chunks : token \in Range(tokens[i])})]
    IN  /\ lastCall.index = cachedIndex
        /\ DOMAIN idf = DOMAIN df
        /\ \A token \in DOMAIN df :
             idf[token] = WeightScale + LogRatio(Len(chunks) + 1, df[token] + 1)
        /\ \A i \in DOMAIN chunks :
             /\ DOMAIN chunks[i].tfidf = Range(tokens[i])
             /\ \A token \in Range(tokens[i]) :
                  chunks[i].tfidf[token] =
                    (Count(tokens[i], token) * idf[token]) \div Len(tokens[i])
        /\ \A j \in DOMAIN lastCall.result :
             \E i \in DOMAIN chunks :
               /\ chunks[i].id = lastCall.result[j].id
               /\ lastCall.result[j].score = ScoreOf(i)

\* a retrieve on a reused Index, built from an earlier file, in which a
\* query token has an idf other than 1
C8_Witness ==
  /\ IsRetrieve
  /\ ~lastCall.built
  /\ sourcesFile # builtFrom
  /\ lastCall.result # <<>>
  /\ \E token \in Range(tokenize(lastCall.query)) :
       token \in DOMAIN lastCall.index.idf /\ lastCall.index.idf[token] # WeightScale

(***************************************************************************)
(* Definitions for the properties of normalizeItinerary.                   *)
(***************************************************************************)
Normalized == normResult # Pending

\* the parsed value is a JSON object whose days field is a non-empty array
HasDayList ==
  /\ normRaw.type = "object"
  /\ "days" \in DOMAIN normRaw.value
  /\ normRaw.value.days.type = "array"
  /\ normRaw.value.days.value # <<>>

\* C10: normalizeItinerary returns null exactly when the parsed value is not
\* an object, or its days field is not an array, or that array is empty; an
\* Itinerary it returns has one day entry per element of days, in order
C10_NullOrDays ==
  Normalized =>
    /\ (normResult = NULL) <=> ~HasDayList
    /\ normResult \notin {NULL, TypeError} =>
         LET daysRaw == normRaw.value.days.value
         IN  /\ Len(normResult.days) >= 1
             /\ Len(normResult.days) = Len(daysRaw)
             /\ \A i \in DOMAIN daysRaw :
                  /\ (daysRaw[i].type = "object" /\ "day" \in DOMAIN daysRaw[i].value
                        /\ daysRaw[i].value.day.type = "number")
                       => normResult.days[i].day = daysRaw[i].value.day.value
                  /\ (daysRaw[i].type # "object" \/ "day" \notin DOMAIN daysRaw[i].value)
                       => normResult.days[i].day = i

\* an Itinerary of three entries from a days array with an element that is
\* not an object
C10_Witness ==
  /\ Normalized
  /\ normResult \notin {NULL, TypeError}
  /\ Len(normResult.days) = 3
  /\ \E i \in DOMAIN normRaw.value.days.value : normRaw.value.days.value[i].type = "number"

(***************************************************************************)
(* Definitions for the properties of concurrent requests.                  *)
(***************************************************************************)
\* the number of paragraphs of the first n sources
RECURSIVE ParagraphsBefore(_, _)
ParagraphsBefore(sources, n) ==
  IF n = 0 THEN 0
  ELSE ParagraphsBefore(sources, n - 1) + Len(chunkContent(sources[n]))

\* index holds every paragraph of every document of file, in order, an idf
\* for every token of every paragraph, and a weight for every token of each
Complete(index, file) ==
  LET sources == IF file.state = "array" THEN file.records ELSE <<>>
  IN  /\ Len(index.chunks) = ParagraphsBefore(sources, Len(sources))
      /\ \A n \in DOMAIN sources :
           \A p \in DOMAIN chunkContent(sources[n]) :
             LET chunk == index.chunks[ParagraphsBefore(sources, n - 1) + p]
             IN  /\ chunk.sourceId = sources[n].id
                 /\ chunk.content = chunkContent(sources[n])[p]
      /\ DOMAIN index.idf =
           UNION {Range(ParagraphTokens[index.chunks[i].content]) : i \in DOMAIN index.chunks}
      /\ \A i \in DOMAIN index.chunks :
           /\ DOMAIN index.chunks[i].tfidf = Range(ParagraphTokens[index.chunks[i].content])
           /\ \A token \in DOMAIN index.chunks[i].tfidf : index.chunks[i].tfidf[token] > 0
           /\ (index.chunks[i].norm = 0) <=> (DOMAIN index.chunks[i].tfidf = {})

HasRetrieved(r) == requests[r].pc = "fetch"

\* C9: the cache never holds a partially built Index, and both retrieve
\* calls of every request score one completely built Index
C9_NeverHalfBuilt ==
  /\ cachedIndex # NULL => Complete(cachedIndex, builtFrom)
  /\ \A r \in Requests :
       HasRetrieved(r) =>
         /\ requests[r].webIndex = requests[r].kbIndex
         /\ Complete(requests[r].webIndex, requests[r].from)
         /\ \A j \in DOMAIN requests[r].webSources :
              \E i \in DOMAIN requests[r].webIndex.chunks :
                requests[r].webIndex.chunks[i].id = requests[r].webSources[j].id

\* two requests in flight at once, one of which built the Index, that hold
\* different Indexes with chunks because of a refreshIndex between them
C9_Witness ==
  /\ requests[1].pc = "fetch"
  /\ requests[2].pc = "fetch"
  /\ requests[1].built \/ requests[2].built
  /\ requests[1].webIndex # requests[2].webIndex
  /\ requests[1].webSources # <<>>
  /\ requests[2].webSources # <<>>


(***************************************************************************)
(* Definitions for the properties of extractJson and normalizeItinerary.   *)
(***************************************************************************)
\* C11: extractJson followed by normalizeItinerary never raises: whatever
\* the reply and whatever the parsed value, the call yields an Itinerary or
\* null
C11_NeverRaises == Normalized => normResult # TypeError

\* normalizeItinerary has returned an Itinerary
IsItinerary == Normalized /\ normResult \notin {NULL, TypeError}

\* the value of the property day of the element of days at position i
SuppliedDay(i) ==
  LET dayItem == normRaw.value.days.value[i]
  IN  IF dayItem.type = "object" THEN Get(dayItem, "day") ELSE Undefined

\* C12: in every Itinerary that normalizeItinerary returns, the day of each
\* entry is an integer of at least 1: the supplied number when there is one,
\* and the 1-based position of the entry when the value is absent or null
C12_DayAtLeastOne ==
  IsItinerary =>
    \A i \in DOMAIN normResult.days :
      /\ normResult.days[i].day >= 1
      /\ SuppliedDay(i).type \in {"undefined", "null"} => normResult.days[i].day = i
      /\ (SuppliedDay(i).type = "number" /\ ~SuppliedDay(i).nan /\ SuppliedDay(i).value >= 1)
           => normResult.days[i].day = SuppliedDay(i).value

\* the value of the property sources of the parsed value, coerced
CoercedSources == coerceStringArray(Get(normRaw, "sources"))

\* the property sources of the parsed value is missing or empty: absent,
\* null, an empty text, an empty array, or an array of blank texts
SourcesMissing ==
  LET supplied == Get(normRaw, "sources")
  IN  \/ supplied.type \in {"undefined", "null"}
      \/ supplied.type = "string" /\ Trim(supplied.value) = <<>>
      \/ /\ supplied.type = "array"
         /\ \A i \in DOMAIN supplied.value :
              supplied.value[i].type = "string" /\ Trim(supplied.value[i].value) = <<>>

\* C14: the sources of a normalized Itinerary are the coerced sources of the
\* parsed value when there are any, and the fallback tokens of the caller,
\* unchanged and in order, when the sources are missing, empty or all blank
C14_SourcesOrFallback ==
  IsItinerary =>
    /\ CoercedSources # <<>> => normResult.sources = CoercedSources
    /\ CoercedSources = <<>> => normResult.sources = normFallback
    /\ SourcesMissing => normResult.sources = normFallback
    /\ \A i \in DOMAIN normResult.sources : Trim(normResult.sources[i]) # <<>>

\* an Itinerary that took the two fallback tokens because the sources of
\* the parsed value were an empty array
C14_Witness ==
  /\ IsItinerary
  /\ Get(normRaw, "sources") = JArr(<<>>)
  /\ normFallback = <<TextS1, TextS2>>
  /\ normResult.sources = <<TextS1, TextS2>>

\* C15: normalizeItinerary is idempotent: normalizing an Itinerary that it
\* returned, with the same fallback tokens, returns an Itinerary with the
\* same title, days, transportNotes, tips and sources
C15_Idempotent == normAgain # Pending => normAgain = normResult

(***************************************************************************)
(* The feedback route: POST /api/feedback.  Calls are served concurrently; *)
(* a call yields at await req.json() and at each of the two statements     *)
(* that it sends to the database.                                          *)
(***************************************************************************)
\* the bodies of the calls: not JSON, null, a number, and objects with and
\* without a rating
FeedbackBodyPool ==
  { Unparsable, JNull, JNum(1),
    JObj([messageId |-> JStr(<<"m">>)]),
    JObj([rating |-> JNum(0)]),
    JObj([rating |-> JNum(2)]),
    JObj([rating |-> JStr(<<"1">>)]),
    JObj([rating |-> JNum(1)]),
    JObj([rating |-> JNum(0 - 1), messageId |-> JStr(<<"m">>)]) }

\* the check of the body, when any truthy rating passes
isInvalidFeedback_Truthy(body) == ~Truthy(body) \/ ~Truthy(Get(body, "rating"))

\* !body || (body.rating !== 1 && body.rating !== -1)
isInvalidFeedback(body) ==
  \/ ~Truthy(body)
  \/ Get(body, "rating") # JNum(1) /\ Get(body, "rating") # JNum(0 - 1)

\* the object feedback; randomUUID() is the number of the call, and the
\* request carries no user-agent header
feedbackOf(body, call) ==
  [id |-> call,
   messageId |-> Coalesce(Get(body, "messageId"), JNull),
   rating |-> Get(body, "rating"),
   mode |-> Coalesce(Get(body, "mode"), JNull),
   question |-> Coalesce(Get(body, "question"), JNull),
   answer |-> Coalesce(Get(body, "answer"), JNull),
   sources |-> Coalesce(Get(body, "sources"), JArr(<<>>)),
   userAgent |-> JNull]

\* the response of a call, with the body and the number of the call
feedbackDone(call, status, storage) ==
  [pc |-> "done", call |-> call.call, body |-> call.body, status |-> status,
   storage |-> storage]

InitFeedback ==
  /\ sourcesFile = [state |-> "missing", records |-> <<>>]
  /\ cachedIndex = NULL
  /\ builtFrom = NULL
  /\ lastCall = [op |-> "none"]
  /\ normText = NoText
  /\ normRaw = JNull
  /\ normFallback = <<>>
  /\ normResult = Pending
  /\ normAgain = Pending
  /\ requests = [r \in Requests |-> IdleRequest]
  /\ post = IdlePost
  /\ responseCache = <<>>
  /\ now = 0
  /\ configured = FALSE
  /\ NoFeedback
  /\ postgresUrl \in BOOLEAN
  /\ home = InitialHome

\* a request arrives; POST awaits req.json()
FeedbackArrive(r, body) ==
  /\ feedbackCalls[r].pc \in {"idle", "done"}
  /\ arrived < MaxFeedback
  /\ arrived' = arrived + 1
  /\ feedbackCalls' = [feedbackCalls EXCEPT
                         ![r] = [pc |-> "body", call |-> arrived + 1, body |-> body]]
  /\ UNCHANGED <<ragVars, normVars, requests, chatVars, memoryStore, feedbackTable,
                 postgresUrl, home>>

\* POST, from the body to its first statement for the database: a body that
\* is not JSON makes req.json() reject, which the framework answers with 500
FeedbackCheck(r) ==
  /\ feedbackCalls[r].pc = "body"
  /\ LET call == feedbackCalls[r]
         feedback == feedbackOf(call.body, call.call)
     IN  IF call.body = Unparsable
           THEN /\ feedbackCalls' = [feedbackCalls EXCEPT ![r] = feedbackDone(call, 500, "none")]
                /\ UNCHANGED memoryStore
         ELSE IF isInvalidFeedback(call.body)
           THEN /\ feedbackCalls' = [feedbackCalls EXCEPT ![r] = feedbackDone(call, 400, "none")]
                /\ UNCHANGED memoryStore
         ELSE IF ~postgresUrl
           THEN /\ memoryStore' = Append(memoryStore, feedback)
                /\ feedbackCalls' =
                     [feedbackCalls EXCEPT ![r] = feedbackDone(call, 200, "memory")]
         ELSE /\ feedbackCalls' = [feedbackCalls EXCEPT
                                     ![r] = [pc |-> "create", call |-> call.call,
                                             body |-> call.body, feedback |-> feedback]]
              /\ UNCHANGED memoryStore
  /\ UNCHANGED <<ragVars, normVars, requests, chatVars, feedbackTable, postgresUrl, arrived, home>>

\* CREATE TABLE IF NOT EXISTS feedback: it succeeds or it throws
FeedbackCreate(r, succeeds) ==
  /\ feedbackCalls[r].pc = "create"
  /\ IF succeeds
       THEN /\ feedbackTable' = [feedbackTable EXCEPT !.exists = TRUE]
            /\ feedbackCalls' = [feedbackCalls EXCEPT ![r].pc = "insert"]
       ELSE /\ feedbackCalls' =
                 [feedbackCalls EXCEPT ![r] = feedbackDone(feedbackCalls[r], 500, "none")]
            /\ UNCHANGED feedbackTable
  /\ UNCHANGED <<ragVars, normVars, requests, chatVars, memoryStore, postgresUrl, arrived, home>>

\* INSERT INTO feedback: it adds the row, or it throws and adds nothing
FeedbackInsert(r, succeeds) ==
  /\ feedbackCalls[r].pc = "insert"
  /\ IF succeeds
       THEN /\ feedbackTable' =
                 [feedbackTable EXCEPT !.rows = Append(@, feedbackCalls[r].feedback)]
            /\ feedbackCalls' =
                 [feedbackCalls EXCEPT ![r] = feedbackDone(feedbackCalls[r], 200, "postgres")]
       ELSE /\ feedbackCalls' =
                 [feedbackCalls EXCEPT ![r] = feedbackDone(feedbackCalls[r], 500, "none")]
            /\ UNCHANGED feedbackTable
  /\ UNCHANGED <<ragVars, normVars, requests, chatVars, memoryStore, postgresUrl, arrived, home>>

NextFeedback ==
  \/ \E r \in FeedbackCalls, body \in FeedbackBodyPool : FeedbackArrive(r, body)
  \/ \E r \in FeedbackCalls : FeedbackCheck(r)
  \/ \E r \in FeedbackCalls, succeeds \in BOOLEAN : FeedbackCreate(r, succeeds)
  \/ \E r \in FeedbackCalls, succeeds \in BOOLEAN : FeedbackInsert(r, succeeds)

SpecFeedback == InitFeedback /\ [][NextFeedback]_vars

(***************************************************************************)
(* Definitions for the properties of POST /api/chat.                       *)
(***************************************************************************)
\* POST has answered with status 200
Answered == post.pc = "done" /\ post.status = 200

\* POST has answered with status 200 and a text that it did not take from
\* responseCache
AnsweredFresh == Answered /\ ~post.cached

ModeOf(body) == Get(body, "mode")

\* the citation tokens of the chunks retrieved for the request
RetrievedTokens == {<<"S">> \o ToDecimal(k) : k \in 1..Len(post.webSources)}

\* the tokens of the Sources line that the last line of text is: the texts
\* between "[" and "]"
BracketTokens(line) ==
  { SubSeq(line, i + 1, j - 1) :
      <<i, j>> \in { p \in (DOMAIN line) \X (DOMAIN line) :
                       /\ p[1] < p[2]
                       /\ line[p[1]] = "[" /\ line[p[2]] = "]"
                       /\ \A k \in (p[1] + 1)..(p[2] - 1) : line[k] \notin {"[", "]"} } }

\* the last line of text
LastLine(text) ==
  LET breaks == {i \in DOMAIN text : text[i] = "\n"}
  IN  IF breaks = {} THEN text
      ELSE SubSeq(text, Nth(breaks, Cardinality(breaks)) + 1, Len(text))

\* C13: every token in the sources of the Itinerary normalized for a request,
\* and every token of the Sources line rendered from it, is "none" or one of
\* the tokens S1..Sn of the n chunks retrieved for that request
C13_TokensRetrieved ==
  (AnsweredFresh /\ post.normalized # NULL) =>
    /\ \A i \in DOMAIN post.normalized.sources :
         post.normalized.sources[i] \in {TextNone} \cup RetrievedTokens
    /\ BracketTokens(LastLine(post.response.text)) \subseteq RetrievedTokens

\* extractJson finds no value in the reply, or normalizeItinerary returns
\* null for the value it finds
NoItineraryIn(reply, webSources) ==
  \E parsed \in {extractJsonOf(reply)} :
    \/ ~Truthy(parsed)
    \/ normalizeItinerary(parsed, sourceTokens(webSources)) = NULL

\* POST has received the reply post.reply to a request in itinerary mode
RepliedToItinerary ==
  /\ post.pc = "done"
  /\ "reply" \in DOMAIN post
  /\ ModeOf(post.body) = JStr(ItineraryMode)

\* C16: in itinerary mode, when extractJson finds no value or
\* normalizeItinerary returns null, the status is 200 and the text of the
\* response is the text of the reply, followed by "\n\nSources: ..." if and
\* only if the reply has no Sources line
C16_RawTextKept ==
  (RepliedToItinerary /\ NoItineraryIn(post.reply, post.webSources)) =>
    /\ post.status = 200
    /\ post.response.text =
         IF hasSourcesLine(post.reply)
           THEN post.reply
           ELSE post.reply \o SourcesAppended \o fallbackSources(post.webSources)

\* the reply is the fenced block whose days are empty, and the response is
\* that reply with the Sources line appended
C16_Witness ==
  /\ RepliedToItinerary
  /\ post.reply = ReplyFencedEmptyDays
  /\ extractJsonOf(post.reply) = JObj([days |-> JArr(<<>>)])
  /\ post.status = 200
  /\ post.response.text = ReplyFencedEmptyDays \o SourcesAppended \o TextNone

\* eval.js: data.itinerary || null
responseItinerary(data) == IF "itinerary" \in DOMAIN data THEN data.itinerary ELSE NULL

\* eval.js, /\bSources:\s*/i.test(responseText): the text has the word
\* "Sources:", in any case, at the start of a word
ContainsSourcesLine(text) ==
  \E i \in DOMAIN text :
    /\ i + Len(SourcesWord) - 1 <= Len(text)
    /\ ToLowerCase(SubSeq(text, i, i + Len(SourcesWord) - 1)) = SourcesWord
    /\ i = 1 \/ text[i - 1] \notin Range(LowerCase) \cup Range(UpperCase) \cup Range(Digits) \cup {"_"}

\* eval.js, checks.sources: the text has a Sources line, or the itinerary of
\* the response has an array of sources
checksSources(data) ==
  \/ ContainsSourcesLine(data.text)
  \/ /\ responseItinerary(data) # NULL
     /\ TypeOf(Get(responseItinerary(data), "sources")) = "array"

\* eval.js, hasStructuredItinerary: the itinerary of the response has a
\* string title and an array of days
hasStructuredItinerary(data) ==
  /\ responseItinerary(data) # NULL
  /\ TypeOf(Get(responseItinerary(data), "title")) = "string"
  /\ TypeOf(Get(responseItinerary(data), "days")) = "array"

\* C17: every response of status 200, in chat and in itinerary mode, fresh
\* or taken from responseCache, has a text with a Sources line, and passes
\* the sources check of the evaluation script
C17_SourcesLine ==
  Answered => ContainsSourcesLine(post.response.text) /\ checksSources(post.response)

\* a response in itinerary mode that is served from responseCache, after a
\* reply that had no Sources line of its own
C17_Witness ==
  /\ Answered
  /\ post.cached
  /\ ModeOf(post.body) = JStr(ItineraryMode)
  /\ \E reply \in {ReplyPlain, ReplyFencedEmptyDays} :
       post.response.text = reply \o SourcesAppended \o fallbackSources(post.webSources)

EndsWith(text, word) ==
  /\ Len(text) >= Len(word)
  /\ SubSeq(text, Len(text) - Len(word) + 1, Len(text)) = word

\* C18: when retrieve returns no web chunk for a request, the text of the
\* response of status 200 ends with "Sources: none"
C18_EndsWithNone ==
  (Answered /\ Len(post.webSources) = 0) => EndsWith(post.response.text, SourcesNone)

\* C19: a response of status 200 to a request in itinerary mode carries an
\* itinerary with a string title and an array of days, so that it passes the
\* structured check of the evaluation script
C19_CarriesItinerary ==
  (Answered /\ ModeOf(post.body) = JStr(ItineraryMode)) => hasStructuredItinerary(post.response)

(***************************************************************************)
(* Definitions for the properties of POST /api/feedback.                   *)
(***************************************************************************)
\* the number of entries of a store that the call numbered call made
StoredIn(store, call) == Cardinality({i \in DOMAIN store : store[i].id = call})

\* the body was parsed and its rating is 1 or -1
ValidRating(body) ==
  /\ body # Unparsable
  /\ body.type = "object"
  /\ "rating" \in DOMAIN body.value
  /\ body.value.rating \in {JNum(1), JNum(0 - 1)}

\* C20: a call whose parsed body has a rating other than 1 and -1 is
\* answered with 400 and leaves no entry in either store; a call with a
\* valid rating leaves one entry in memoryStore and none in the table when
\* POSTGRES_URL is not set, and one row in the table and none in memoryStore
\* when it is set and the call is answered with 200; when a statement for
\* the database fails the call is answered with 500 and memoryStore has no
\* entry of it
C20_FeedbackStored ==
  \A r \in FeedbackCalls :
    LET call == feedbackCalls[r]
        inMemory == StoredIn(memoryStore, call.call)
        inTable == StoredIn(feedbackTable.rows, call.call)
    IN  /\ call.pc \in {"body", "create", "insert"} => inMemory = 0 /\ inTable = 0
        /\ (call.pc = "done" /\ call.body # Unparsable /\ ~ValidRating(call.body)) =>
             call.status = 400 /\ inMemory = 0 /\ inTable = 0
        /\ (call.pc = "done" /\ ValidRating(call.body) /\ ~postgresUrl) =>
             call.status = 200 /\ call.storage = "memory" /\ inMemory = 1 /\ inTable = 0
        /\ (call.pc = "done" /\ ValidRating(call.body) /\ postgresUrl) =>
             /\ call.status \in {200, 500}
             /\ inMemory = 0
             /\ call.status = 200 => call.storage = "postgres" /\ inTable = 1
             /\ call.status = 500 => inTable = 0

\* POSTGRES_URL is set: a call with rating 1 was answered with 500 after its
\* INSERT failed, another call with rating -1 has its row in the table, and
\* memoryStore is empty
C20_Witness ==
  /\ postgresUrl
  /\ memoryStore = <<>>
  /\ \E r, q \in FeedbackCalls :
       /\ feedbackCalls[r].pc = "done" /\ feedbackCalls[q].pc = "done"
       /\ Get(feedbackCalls[r].body, "rating") = JNum(1)
       /\ feedbackCalls[r].status = 500
       /\ feedbackTable.exists
       /\ Get(feedbackCalls[q].body, "rating") = JNum(0 - 1)
       /\ feedbackCalls[q].status = 200
       /\ StoredIn(feedbackTable.rows, feedbackCalls[q].call) = 1

(***************************************************************************)
(* Definitions for the properties of the Index.                            *)
(***************************************************************************)
\* the file that the Index was built from holds at least one chunk
IndexBuilt == cachedIndex # NULL /\ cachedIndex.chunks # <<>>

\* the chunks that buildIndex made of the file it loaded
BuiltChunks == rawChunksFrom(loadSources(builtFrom))

\* the chunks that hold term at least once
ChunksWith(chunks, term) == {i \in DOMAIN chunks : term \in Range(chunks[i].tokens)}

\* C21: for an Index of N >= 1 chunks, every term of the IDF table has a
\* document frequency df that is the number of distinct chunks holding the
\* term, with 1 <= df <= N, so that (N + 1) / (df + 1) >= 1 and the idf value
\* is at least 1, and every token of a chunk is a term of the table
C21_IdfPositive ==
  IndexBuilt =>
    \E chunks \in {BuiltChunks} :
    \E df \in {documentFrequency(chunks)} :
      /\ DOMAIN cachedIndex.idf = DOMAIN df
      /\ DOMAIN df = UNION {Range(chunks[i].tokens) : i \in DOMAIN chunks}
      /\ \A term \in DOMAIN df :
           /\ df[term] = Cardinality(ChunksWith(chunks, term))
           /\ 1 <= df[term] /\ df[term] <= Len(chunks)
           /\ Len(chunks) + 1 >= df[term] + 1
           /\ cachedIndex.idf[term] >= WeightScale
           /\ cachedIndex.idf[term] > 0

\* an Index of two chunks or more, with a term that occurs more than once
\* in the only chunk that holds it, and a term that every chunk holds
C21_Witness ==
  /\ IndexBuilt
  /\ Len(BuiltChunks) >= 2
  /\ \E term \in DOMAIN cachedIndex.idf :
       /\ Cardinality(ChunksWith(BuiltChunks, term)) = 1
       /\ \E i \in DOMAIN BuiltChunks : Count(BuiltChunks[i].tokens, term) >= 2
       /\ cachedIndex.idf[term] > WeightScale
  /\ \E term \in DOMAIN cachedIndex.idf :
       /\ Cardinality(ChunksWith(BuiltChunks, term)) = Len(BuiltChunks)
       /\ cachedIndex.idf[term] = WeightScale

\* the sources that buildIndex loaded
BuiltSources == loadSources(builtFrom)

\* the chunks of the Index that come from the source
ChunksOf(source) ==
  LET FromSource(chunk) == chunk.sourceId = source.id
  IN  SelectSeq(cachedIndex.chunks, FromSource)

\* the texts of parts occur in text one after the other, from position from on
RECURSIVE InOrder(_, _, _)
InOrder(text, parts, from) ==
  \/ parts = <<>>
  \/ \E at \in {IndexOf(text, parts[1], from)} :
       at # 0 /\ InOrder(text, Tail(parts), at + Len(parts[1]))

\* the number of characters of text that are not white space
Inked(text) == Cardinality({i \in DOMAIN text : ~IsSpace(text[i])})

RECURSIVE InkedIn(_)
InkedIn(chunks) ==
  IF chunks = <<>> THEN 0 ELSE Inked(chunks[1].content) + InkedIn(Tail(chunks))

\* C22: every source whose content is not blank has at least one chunk in
\* the Index; the chunks of a source are trimmed and not empty, they hold its
\* text in the order of the document, and their ids are <sourceId>-1,
\* <sourceId>-2, ...
C22_EveryDocumentChunked ==
  cachedIndex # NULL =>
    \A s \in DOMAIN BuiltSources :
      \E source \in {BuiltSources[s]} :
      \E chunks \in {ChunksOf(source)} :
        /\ Trim(source.content) # <<>> => Len(chunks) >= 1
        /\ \A k \in DOMAIN chunks :
             /\ chunks[k].id = source.id \o <<"-">> \o ToDecimal(k)
             /\ chunks[k].content # <<>>
             /\ Trim(chunks[k].content) = chunks[k].content
        /\ InOrder(source.content, [k \in DOMAIN chunks |-> chunks[k].content], 1)
        /\ InkedIn(chunks) = Inked(source.content)

\* an Index of a document without a blank line, which is one chunk, and of a
\* document with blank lines and white space around its two paragraphs
C22_Witness ==
  /\ cachedIndex # NULL
  /\ BuiltSources = <<SourceB, SourceC>>
  /\ Len(ChunksOf(SourceB)) = 1
  /\ ChunksOf(SourceB)[1].content = SourceB.content
  /\ Len(ChunksOf(SourceC)) = 2
  /\ ChunksOf(SourceC)[2].id = <<"k", "b", "-", "c", "-", "2">>
  /\ ChunksOf(SourceC)[2].content = <<"g", "o", " ", "i", "t">>

(***************************************************************************)
(* Definitions for the lists of a normalized Itinerary.                    *)
(***************************************************************************)
\* the texts that are not blank, in order
RECURSIVE WithoutBlanks(_)
WithoutBlanks(texts) ==
  IF texts = <<>> THEN <<>>
  ELSE (IF \A i \in DOMAIN texts[1] : IsSpace(texts[1][i]) THEN <<>> ELSE <<texts[1]>>)
         \o WithoutBlanks(Tail(texts))

\* list is what the claim asks of the list made from the value supplied
CoercedFrom(list, supplied) ==
  /\ ~Truthy(supplied) => list = <<>>
  /\ (Truthy(supplied) /\ ~IsArray(supplied)) =>
       list = WithoutBlanks(<<ToStr(supplied)>>)
  /\ IsArray(supplied) =>
       list = WithoutBlanks([i \in DOMAIN supplied.value |-> ToStr(supplied.value[i])])
  /\ \A i \in DOMAIN list : list[i] # <<>> /\ Trim(list[i]) # <<>>

\* the property name of the element at position i of the array that the
\* property field of the parsed value is
SuppliedIn(field, i, name) == Get(normRaw.value[field].value[i], name)

\* C23: in a normalized Itinerary, morning, afternoon and evening of a day
\* and the details of a tip are the empty list when the value supplied is
\* missing or falsy, the stringified value alone when it is not an array,
\* and the stringified elements of the array in order otherwise, in each
\* case without the texts that are empty or blank
C23_CoercedLists ==
  IsItinerary =>
    /\ \A i \in DOMAIN normResult.days :
         /\ CoercedFrom(normResult.days[i].morning, SuppliedIn("days", i, "morning"))
         /\ CoercedFrom(normResult.days[i].afternoon, SuppliedIn("days", i, "afternoon"))
         /\ CoercedFrom(normResult.days[i].evening, SuppliedIn("days", i, "evening"))
    /\ \A i \in DOMAIN normResult.tips :
         CoercedFrom(normResult.tips[i].details, SuppliedIn("tips", i, "details"))

\* an Itinerary of a day whose morning was the array ["a", " ", 4], whose
\* afternoon was the string "b" and whose evening was an empty array, with a
\* tip whose details were the string "d"
C23_Witness ==
  /\ IsItinerary
  /\ Len(normResult.days) = 1
  /\ SuppliedIn("days", 1, "morning") = JArr(<<JStr(<<"a">>), JStr(<<" ">>), JNum(4)>>)
  /\ normResult.days[1].morning = << <<"a">>, <<"4">> >>
  /\ normResult.days[1].afternoon = << <<"b">> >>
  /\ normResult.days[1].evening = <<>>
  /\ Len(normResult.tips) = 2
  /\ normResult.tips[1].details = <<>>
  /\ normResult.tips[2].details = << <<"d">> >>

(***************************************************************************)
(* The response cache of POST /api/chat.                                   *)
(***************************************************************************)
\* the step writes the response cache: it ends a call with the 200 response
\* made from a reply of the upstream model that is not empty, and the entry
\* it writes, under the key of the call, is the text and the sources of that
\* response, written now
WritesProduced ==
  /\ post.pc = "fetch"
  /\ post'.pc = "done" /\ post'.status = 200 /\ ~post'.cached
  /\ post'.reply # <<>>
  /\ post'.cacheKey = post.cacheKey
  /\ responseCache' =
       (post.cacheKey :> [text |-> post'.response.text,
                          sources |-> post'.response.sources,
                          expires |-> now + CACHE_TTL_MS]) @@ responseCache

\* the step ends a call with a response served from the response cache
ServesCached == post.pc = "body" /\ post'.pc = "done" /\ post'.cached

\* the response served is the entry of the key of the call, which was
\* written less than CACHE_TTL_MS ago and not in the future
ServedIsFresh ==
  /\ post'.status = 200
  /\ post'.cacheKey \in DOMAIN responseCache
  /\ post'.response = okResponse(responseCache[post'.cacheKey].text,
                                 responseCache[post'.cacheKey].sources)
  /\ now - (responseCache[post'.cacheKey].expires - CACHE_TTL_MS) < CACHE_TTL_MS
  /\ responseCache[post'.cacheKey].expires - CACHE_TTL_MS <= now

\* C24: the response cache changes only when a call ends with the 200
\* response made from a non-empty reply of the upstream model, and the entry
\* written is that response under the key of the call, stamped with the time
\* of writing; a response served from the cache is the entry of the key of
\* the call, written less than CACHE_TTL_MS earlier; a call that ends with
\* 400, 500 or 502 leaves the cache as it was and is not served from it.
C24_CacheServesProduced ==
  [][ /\ responseCache' # responseCache => WritesProduced
      /\ ServesCached => ServedIsFresh
      /\ (post'.pc = "done" /\ post' # post /\ post'.status # 200)
           => (responseCache' = responseCache /\ ~post'.cached) ]_vars

\* a call was served from the cache half the life of an entry after the
\* entry of its key was written
C24_Witness ==
  /\ post.pc = "done" /\ post.cached
  /\ now = TickMs
  /\ responseCache[post.cacheKey].expires = CACHE_TTL_MS

(***************************************************************************)
(* The calls of POST /api/chat that are served at the same time: a call    *)
(* gives way to the others at await req.json() and at await fetch().       *)
(***************************************************************************)
RaceBodies == {BodyNoMessages, BodyChat, BodyItinerary}

\* the outcomes of the call of the upstream model: a response that is not ok
\* and a reply
RaceUpstream == {UpstreamError, [ok |-> TRUE, content |-> JStr(ReplyPlain)]}

InitRace ==
  /\ sourcesFile \in ChatFiles
  /\ cachedIndex = NULL
  /\ builtFrom = NULL
  /\ lastCall = [op |-> "none"]
  /\ normText = NoText
  /\ normRaw = JNull
  /\ normFallback = <<>>
  /\ normResult = Pending
  /\ normAgain = Pending
  /\ requests = [r \in Requests |-> IdleRequest]
  /\ post = IdlePost
  /\ responseCache = <<>>
  /\ now = 0
  /\ configured \in BOOLEAN
  /\ NoFeedback
  /\ postgresUrl = FALSE
  /\ home = InitialHome

\* request r arrives; its POST awaits req.json()
RaceArrive(r, body) ==
  /\ requests[r].pc \in {"idle", "done"}
  /\ requests' = [requests EXCEPT ![r] = [pc |-> "body", body |-> body]]
  /\ UNCHANGED <<ragVars, normVars, chatVars, feedbackVars, home>>

\* the POST of request r, from the body to await fetch(): the checks, the two
\* calls of retrieve, the lookup in responseCache and the start of the call
\* of the upstream model
RaceLookup(r) ==
  /\ requests[r].pc = "body"
  /\ \E body \in {requests[r].body} :
       IF \/ ~configured
          \/ ~Truthy(Get(body, "mode"))
          \/ /\ Get(body, "mode") = JStr(ChatMode)
             /\ \/ ~Truthy(Get(body, "messages"))
                \/ Len(Get(body, "messages").value) = 0
         THEN /\ requests' =
                   [requests EXCEPT ![r] = [pc |-> "done",
                                            status |-> IF configured THEN 400 ELSE 500,
                                            called |-> FALSE]]
              /\ UNCHANGED ragVars
         ELSE \E web \in {retrieveCall(cachedIndex, builtFrom, sourcesFile,
                                       queryOf(body), WebLimit)} :
              \E kb \in {retrieveCall(web.cache, web.from, sourcesFile,
                                      queryOf(body), KbLimit)} :
              \E all \in {web.call.result \o kb.call.result} :
              \E cacheKey \in {buildCacheKey(body, [i \in DOMAIN all |-> all[i].id])} :
                /\ cachedIndex' = kb.cache
                /\ builtFrom' = kb.from
                /\ lastCall' = kb.call
                /\ requests' =
                     [requests EXCEPT ![r] =
                        IF cacheHit(responseCache, cacheKey, now)
                          THEN [pc |-> "done", status |-> 200, called |-> FALSE,
                                cacheKey |-> cacheKey]
                          ELSE [pc |-> "fetch", body |-> body,
                                webSources |-> web.call.result,
                                cacheKey |-> cacheKey, calledAt |-> now]]
                /\ UNCHANGED sourcesFile
  /\ UNCHANGED <<normVars, chatVars, feedbackVars, home>>

\* the POST of request r, from the response of the upstream model to its own
\* response
RaceReply(r, upstream) ==
  /\ requests[r].pc = "fetch"
  /\ \E call \in {requests[r]} :
     \E text \in { IF upstream.ok /\ upstream.content.type = "string"
                      THEN Trim(upstream.content.value)
                      ELSE <<>> } :
     \E final \in { IF text = <<>> THEN NULL
                     ELSE finalTextOf(call.body, text, call.webSources) } :
       /\ requests' =
            [requests EXCEPT ![r] =
               [pc |-> "done",
                status |-> IF ~upstream.ok \/ text = <<>> THEN 502
                           ELSE IF final = TypeError THEN 500 ELSE 200,
                called |-> TRUE, cacheKey |-> call.cacheKey,
                calledAt |-> call.calledAt]]
       /\ responseCache' =
            IF ~upstream.ok \/ text = <<>> \/ final = TypeError
              THEN responseCache
              ELSE (call.cacheKey :> [text |-> final.text,
                                      expires |-> now + CACHE_TTL_MS,
                                      sources |-> responseSources(call.webSources)])
                     @@ responseCache
  /\ UNCHANGED <<ragVars, normVars, post, now, configured, feedbackVars, home>>

\* time passes
RaceTick ==
  /\ now < MaxTicks * TickMs
  /\ now' = now + TickMs
  /\ UNCHANGED <<ragVars, normVars, requests, post, responseCache, configured, feedbackVars, home>>

NextRace ==
  \/ \E r \in Requests, body \in RaceBodies : RaceArrive(r, body)
  \/ \E r \in Requests : RaceLookup(r)
  \/ \E r \in Requests, upstream \in RaceUpstream : RaceReply(r, upstream)
  \/ RaceTick

SpecRace == InitRace /\ [][NextRace]_vars

\* request r has called the upstream model in its latest POST
CalledUpstream(r) ==
  \/ requests[r].pc = "fetch"
  \/ requests[r].pc = "done" /\ requests[r].called

\* C25: two requests that share a cache key and have both called the upstream
\* model, the second possibly while the first still awaited the reply, made
\* their calls at least CACHE_TTL_MS apart: one TTL window holds at most one
\* upstream call of a key.
C25_OneUpstreamCall ==
  \A r1, r2 \in Requests :
    (/\ r1 # r2
     /\ CalledUpstream(r1) /\ CalledUpstream(r2)
     /\ requests[r1].cacheKey = requests[r2].cacheKey)
      => \/ requests[r1].calledAt - requests[r2].calledAt >= CACHE_TTL_MS
         \/ requests[r2].calledAt - requests[r1].calledAt >= CACHE_TTL_MS

(***************************************************************************)
(* The requests that POST /api/chat sends to the upstream model, for       *)
(* histories of every length up to MaxMessages.  The upstream model        *)
(* answers with an error, so that responseCache stays empty.               *)
(***************************************************************************)
MaxMessages == 12

RolePatterns == 1..4

\* the role of the i-th message of a history: of the user throughout; of the
\* user and the assistant in turn; the same with a system message at the
\* seventh place; of the assistant, with a system message and a message
\* without role at every fourth place
RoleAt(pattern, i) ==
  IF pattern = 1 THEN JStr(RoleUser)
  ELSE IF pattern = 2 THEN JStr(IF i % 2 = 1 THEN RoleUser ELSE RoleAssistant)
  ELSE IF pattern = 3
    THEN JStr(IF i = 7 THEN RoleSystem
              ELSE IF i % 2 = 1 THEN RoleUser ELSE RoleAssistant)
  ELSE IF i % 4 = 2 THEN JStr(RoleSystem)
  ELSE IF i % 4 = 0 THEN Undefined
  ELSE JStr(RoleAssistant)

\* { role, content: "bus", id: i }, without role where the pattern has none
ClientMessage(pattern, i) ==
  JObj(IF RoleAt(pattern, i) = Undefined
         THEN [content |-> JStr(<<"b", "u", "s">>), id |-> JNum(i)]
         ELSE [role |-> RoleAt(pattern, i), content |-> JStr(<<"b", "u", "s">>),
               id |-> JNum(i)])

\* { mode: "chat", messages: [n messages] }
BodyHistory(pattern, n) ==
  JObj([mode |-> JStr(ChatMode),
        messages |-> JArr([i \in 1..n |-> ClientMessage(pattern, i)])])

\* { mode: "itinerary", city: "Bus", messages: [n messages] }
BodyItineraryHistory(pattern, n) ==
  JObj([mode |-> JStr(ItineraryMode), city |-> JStr(<<"B", "u", "s">>),
        messages |-> JArr([i \in 1..n |-> ClientMessage(pattern, i)])])

PromptBodies ==
  {Unparsable, BodyNoMode, BodyItinerary}
    \cup {BodyHistory(pattern, n) : pattern \in RolePatterns, n \in 0..MaxMessages}
    \cup {BodyItineraryHistory(pattern, 2) : pattern \in RolePatterns}

\* data/sources.json, with and without records whose id begins with "kb-"
PromptFiles ==
  { [state |-> "missing", records |-> <<>>],
    [state |-> "array", records |-> <<SourceA>>],
    [state |-> "array", records |-> <<SourceC>>],
    [state |-> "array", records |-> <<SourceA, SourceC>>] }

InitPrompt ==
  /\ sourcesFile \in PromptFiles
  /\ cachedIndex = NULL
  /\ builtFrom = NULL
  /\ lastCall = [op |-> "none"]
  /\ normText = NoText
  /\ normRaw = JNull
  /\ normFallback = <<>>
  /\ normResult = Pending
  /\ normAgain = Pending
  /\ requests = [r \in Requests |-> IdleRequest]
  /\ post = IdlePost
  /\ responseCache = <<>>
  /\ now = 0
  /\ configured = TRUE
  /\ NoFeedback
  /\ postgresUrl = FALSE
  /\ home = InitialHome

NextPrompt ==
  \/ \E body \in PromptBodies : PostArrive(body)
  \/ PostLookup
  \/ PostReply(UpstreamError)

SpecPrompt == InitPrompt /\ [][NextPrompt]_vars

\* the system messages that the server puts first: the base prompt, the
\* citable sources if any was retrieved, the internal notes if any was
Lead ==
  1 + (IF post.webSources # <<>> THEN 1 ELSE 0) + (IF post.kbSources # <<>> THEN 1 ELSE 0)

\* the messages begin with the system messages of the server, in the order
\* base prompt, citable sources, internal notes
SystemLead ==
  /\ Len(post.messages) >= Lead
  /\ post.messages[1] = Message(RoleSystem, baseSystemPrompt)
  /\ post.webSources # <<>> =>
       post.messages[2] = Message(RoleSystem, formatSources(post.webSources))
  /\ post.kbSources # <<>> =>
       post.messages[Lead] = Message(RoleSystem, formatInternalNotes(post.kbSources))

\* the messages after the system messages of the server
Rest == SubSeq(post.messages, Lead + 1, Len(post.messages))

\* the messages of the client, whatever the mode
ClientMessages == Coalesce(Get(post.body, "messages"), JArr(<<>>)).value

\* the places of the messages of the client whose role is user or assistant
EligiblePlaces ==
  {i \in DOMAIN ClientMessages :
     Get(ClientMessages[i], "role") \in {JStr(RoleUser), JStr(RoleAssistant)}}

\* the messages after the lead are the latest messages of the client with
\* the role user or assistant, at most MAX_HISTORY of them, in their order
LatestHistory ==
  /\ Len(Rest) <= MAX_HISTORY
  /\ \A j \in DOMAIN Rest : Get(Rest[j], "role") # JStr(RoleSystem)
  /\ \E places \in SUBSET EligiblePlaces :
       /\ Cardinality(places) = Len(Rest)
       /\ \A i \in EligiblePlaces \ places : \A k \in places : i < k
       /\ Cardinality(places) = MAX_HISTORY \/ places = EligiblePlaces
       /\ \A j \in DOMAIN Rest :
            \E i \in places :
              /\ Cardinality({k \in places : k <= i}) = j
              /\ Rest[j] = ClientMessages[i]

\* C26 (as stated): the request to the upstream model carries the system
\* messages of the server (base prompt, citable sources, internal notes)
\* followed by at most MAX_HISTORY of the latest user and assistant messages
\* of the client in their order, and no system message of the client.
C26_ClientHistory == post.pc = "fetch" => SystemLead /\ LatestHistory

\* C26 (amended): in chat mode the request carries the system messages of the
\* server followed by at most MAX_HISTORY of the latest user and assistant
\* messages of the client in their order; in itinerary mode the system
\* messages are followed by the one user message that the server writes from
\* the fields of the body, and no message of the client is forwarded.
C26_MessagesByMode ==
  post.pc = "fetch" =>
    /\ SystemLead
    /\ IF Get(post.body, "mode") = JStr(ChatMode)
         THEN LatestHistory
         ELSE Rest = <<Message(RoleUser, itineraryPrompt(post.body))>>

\* a history of more than MAX_HISTORY eligible messages with system messages
\* among them was cut to MAX_HISTORY, after the sources and the notes
C26_Witness ==
  /\ post.pc = "fetch"
  /\ Get(post.body, "mode") = JStr(ChatMode)
  /\ Lead = 3
  /\ Cardinality(EligiblePlaces) > MAX_HISTORY
  /\ \E i \in DOMAIN ClientMessages : Get(ClientMessages[i], "role") = JStr(RoleSystem)
  /\ Len(Rest) = MAX_HISTORY

\* id.startsWith("kb-"): the source was ingested from the knowledge base
IsKb(id) == Len(id) >= 3 /\ SubSeq(id, 1, 3) = <<"k", "b", "-">>

\* C27: of a request that reaches the upstream model, the chunks formatted
\* as citable [S#] sources come from no source whose id begins with "kb-", the
\* chunks formatted as internal notes come only from such sources, and no
\* chunk is in both lists.
C27_SourcesApart ==
  post.pc = "fetch" =>
    /\ \A i \in DOMAIN post.webSources : ~IsKb(post.webSources[i].sourceId)
    /\ \A i \in DOMAIN post.kbSources : IsKb(post.kbSources[i].sourceId)
    /\ \A i \in DOMAIN post.webSources : \A j \in DOMAIN post.kbSources :
         post.webSources[i].id # post.kbSources[j].id

(***************************************************************************)
(* The feedback buttons of the chat page.  React renders the updates of a  *)
(* click before the browser delivers the next event, and the updates made  *)
(* when a fetch settles in a render of their own, some time later.         *)
(***************************************************************************)
\* the number of requests that the model follows for a message
MaxClicks == 3

Ratings == {1, 0 - 1}

\* the test that lets a click through while a request awaits its response
isBlocked_SentOnly(state) == state = "sent"

\* feedbackState[message.id] === "sending" || feedbackState[message.id] === "sent":
\* the attribute disabled of both buttons and the early return of sendFeedback
isBlocked(state) == state \in {"sending", "sent"}

InitHome ==
  /\ sourcesFile \in ChatFiles
  /\ cachedIndex = NULL
  /\ builtFrom = NULL
  /\ lastCall = [op |-> "none"]
  /\ normText = NoText
  /\ normRaw = JNull
  /\ normFallback = <<>>
  /\ normResult = Pending
  /\ normAgain = Pending
  /\ requests = [r \in Requests |-> IdleRequest]
  /\ post = IdlePost
  /\ responseCache = <<>>
  /\ now = 0
  /\ configured = TRUE
  /\ NoFeedback
  /\ postgresUrl = FALSE
  /\ home = InitialHome

\* a click on Helpful or Not helpful of message id: the button is not
\* disabled in the latest render; sendFeedback tests the state of that
\* render, sets the state to sending and calls fetch; React renders the new
\* state when the handler has returned
Click(id, rating) ==
  /\ home.clicks[id] < MaxClicks
  /\ ~isBlocked(home.rendered[id])
  /\ \E state \in {[home.feedbackState EXCEPT ![id] = "sending"]} :
       home' = [feedbackState |-> state,
                rendered |-> state,
                posts |-> [home.posts EXCEPT ![id] = Append(@, rating)],
                clicks |-> [home.clicks EXCEPT ![id] = @ + 1]]
  /\ UNCHANGED <<ragVars, normVars, requests, chatVars, feedbackVars>>

\* the fetch of the oldest request of message id settles: with res.ok the
\* state is set to sent; otherwise, or when fetch rejects, to error
Settle(id, ok) ==
  /\ home.posts[id] # <<>>
  /\ home' = [home EXCEPT !.feedbackState[id] = IF ok THEN "sent" ELSE "error",
                          !.posts[id] = Tail(@)]
  /\ UNCHANGED <<ragVars, normVars, requests, chatVars, feedbackVars>>

\* React renders the state that was set when a fetch settled
Render ==
  /\ home.rendered # home.feedbackState
  /\ home' = [home EXCEPT !.rendered = home.feedbackState]
  /\ UNCHANGED <<ragVars, normVars, requests, chatVars, feedbackVars>>

NextHome ==
  \/ \E id \in MessageIds, rating \in Ratings : Click(id, rating)
  \/ \E id \in MessageIds, ok \in BOOLEAN : Settle(id, ok)
  \/ Render

SpecHome == InitHome /\ [][NextHome]_vars

\* C28: for each message id at most one feedback POST awaits its response; a
\* step that issues a POST starts from a state where none is in flight and
\* where no POST was made yet or the previous one ended in error; and once
\* the state is sent it stays sent and no POST is issued any more.
C28_OnePostAtATime ==
  [][\A id \in MessageIds :
       /\ Len(home'.posts[id]) <= 1
       /\ Len(home'.posts[id]) > Len(home.posts[id]) =>
            /\ home.posts[id] = <<>>
            /\ \/ home.feedbackState[id] = "none" /\ home.clicks[id] = 0
               \/ home.feedbackState[id] = "error"
       /\ home.feedbackState[id] = "sent" =>
            home'.feedbackState[id] = "sent" /\ home'.posts[id] = <<>>]_vars

\* a second POST of a message is in flight, after the first ended in error,
\* while the other message has been sent
C28_Witness ==
  \E id, other \in MessageIds :
    /\ home.clicks[id] = 2
    /\ Len(home.posts[id]) = 1
    /\ home.feedbackState[id] = "sending"
    /\ home.feedbackState[other] = "sent"

=============================================================================
